---- MODULE Spec2Model ----
(***************************************************************************)
(* Model of the arXiv-agent LLM calling substrate:                         *)
(*   src/llm_client/retry.py   CircuitBreaker, call_with_retry             *)
(*   src/llm_client/client.py  LLMClient.reset_circuit                     *)
(* Time is the value of time.time() in whole seconds.                      *)
(***************************************************************************)
EXTENDS Integers, Sequences, FiniteSets, TLC

(* ---- bounds of the model ---------------------------------------------- *)
\* the clock is not advanced past MaxTime
MaxTime == 80
\* record_failure is not driven past this counter value
MaxFailures == 6
\* summarize_batch is called with lists of at most MaxPapers papers
MaxPapers == 2
\* rank_papers is called with lists of at most MaxRank papers
MaxRank == 2
\* the days do not advance past MaxDay
MaxDay == 41
\* extract_key_sentences is called with abstracts of at most MaxSentences
\* sentences
MaxSentences == 4
\* insert_paper is called with papers of at most MaxStored identities
MaxStored == 2
\* summarize_batch, with its chats going through the circuit, is called with
\* lists of at most MaxBatch papers
MaxBatch == 7
\* at most MaxOps operations of the summarizer whose chats go through the
\* circuit are followed
MaxOps == 2
\* the enrichment passes are applied to lists of at most MaxEnriched papers
MaxEnriched == 2
\* at most MaxRuns calls of run_pipeline on the aggregator are followed
MaxRuns == 2

(* ---- program constants ------------------------------------------------ *)
\* CircuitBreaker.__init__(failure_threshold=4, cooldown=60.0)
failure_threshold == 4
cooldown == 60
\* call_with_retry(fn, retries=3, circuit)
retries == 3

\* amounts by which the environment lets the clock advance between steps
TickSteps == {20, 39}

(* ---- error kinds (src/llm_client/errors.py) --------------------------- *)
NonRetryable == {"LLMAuthError", "LLMBadRequestError"}
Retryable == {"LLMRateLimitError", "LLMServerError", "LLMConnectionError", "Exception"}
ErrorKinds == NonRetryable \cup Retryable
\* what one invocation of fn() can do: return a value or raise an error
Values == {"text"}
\* the Retry-After header of a 429 response, in seconds; 0 when the response
\* has none
RetryAfters == {0, 30}
Outcomes ==
    [ok : {TRUE}, v : Values, retry_after : {0}]
      \cup [ok : {FALSE}, v : ErrorKinds \ {"LLMRateLimitError"}, retry_after : {0}]
      \cup [ok : {FALSE}, v : {"LLMRateLimitError"}, retry_after : RetryAfters]

\* the value None of the local last_err, and of "no error raised"
NoErr == [kind |-> "None", at |-> -1]

(* ---- CircuitBreaker --------------------------------------------------- *)
\* CircuitBreaker.__init__
NewCircuit == [failures |-> 0, last_failure_time |-> 0, state |-> "CLOSED"]

\* CircuitBreaker.state (property): the observation itself moves OPEN to
\* HALF_OPEN once the cooldown has elapsed; returns the circuit after the read
\* faulty variant: the cooldown ends one second early
state_mut_early(c, t) ==
    IF c.state = "OPEN" /\ t - c.last_failure_time >= cooldown - 1
       THEN [c EXCEPT !.state = "HALF_OPEN"]
       ELSE c
state(c, t) ==
    IF c.state = "OPEN" /\ t - c.last_failure_time >= cooldown
       THEN [c EXCEPT !.state = "HALF_OPEN"]
       ELSE c

\* CircuitBreaker.allow_request: the returned boolean
allow_request(c, t) == state(c, t).state \in {"CLOSED", "HALF_OPEN"}

\* CircuitBreaker.record_success
\* faulty variant: the counter is not cleared
record_success_mut_keep(c) == [c EXCEPT !.state = "CLOSED"]
record_success(c) == [c EXCEPT !.failures = 0, !.state = "CLOSED"]

\* CircuitBreaker.record_failure
\* faulty variants: > for >=; the timestamp is not taken
record_failure_mut_gt(c, t) ==
    LET f == c.failures + 1 IN
    [failures |-> f, last_failure_time |-> t,
     state |-> IF f > failure_threshold THEN "OPEN" ELSE c.state]
record_failure_mut_notime(c, t) ==
    LET f == c.failures + 1 IN
    [failures |-> f, last_failure_time |-> c.last_failure_time,
     state |-> IF f >= failure_threshold THEN "OPEN" ELSE c.state]
record_failure(c, t) ==
    LET f == c.failures + 1 IN
    [failures |-> f, last_failure_time |-> t,
     state |-> IF f >= failure_threshold THEN "OPEN" ELSE c.state]

\* CircuitBreaker.reset
\* faulty variant: the counter is not cleared
reset_mut_keep(c) == [c EXCEPT !.state = "CLOSED"]
reset(c) == [c EXCEPT !.failures = 0, !.state = "CLOSED"]

\* LLMClient.reset_circuit
reset_circuit(c) == reset(c)

(* ---- call_with_retry -------------------------------------------------- *)
\* the circuit check that opens call_with_retry: the circuit after the check
\* and whether LLMCircuitOpenError is raised
\* faulty variant: the check never raises
call_precheck_mut_noreject(c, t) ==
    [c |-> state(c, t), rejected |-> FALSE]
call_precheck(c, t) ==
    [c |-> state(c, t), rejected |-> ~allow_request(c, t)]

\* whether the except clause that catches an error of this kind at attempt a
\* calls circuit.record_failure()
records_failure(kind, a) ==
    CASE kind \in NonRetryable -> TRUE
      [] kind \in {"LLMRateLimitError", "LLMServerError", "LLMConnectionError"}
                               -> ~(a < retries)
      [] OTHER                 -> TRUE

\* whether another attempt follows a failed attempt a (0-based)
\* faulty variants: every kind is retried; one retry too few
retries_after_mut_all(kind, a) == a < retries
retries_after_mut_short(kind, a) ==
    IF kind \in NonRetryable THEN FALSE ELSE a < retries - 1
retries_after(kind, a) ==
    IF kind \in NonRetryable THEN FALSE ELSE a < retries

\* the time.sleep before the retry that follows failed attempt a
wait(kind, a) ==
    CASE kind = "LLMRateLimitError"  -> 5 * (a + 1)
      [] kind = "LLMServerError"     -> 2 * (a + 1)
      [] kind = "LLMConnectionError" -> 5 * (a + 1)
      [] OTHER                       -> 3 * (a + 1)

\* the local last_err after the except clause for error e has run; prev is
\* its value before (the clause for the non-retryable kinds does not assign it)
\* faulty variant: the first error is kept
last_err_after_mut_first(kind, e, prev) ==
    IF kind \in NonRetryable \/ prev # NoErr THEN prev ELSE e
last_err_after(kind, e, prev) ==
    IF kind \in NonRetryable THEN prev ELSE e

(* ---- texts (src/summarizer/llm_summarizer.py) ------------------------- *)
\* A text is a sequence of tokens.  An abstract is the sequence of its
\* sentences, as re.split cuts it after the abbreviations are rewritten; the
\* text returned by the LLM is a sequence of words, "_" being white space.
\* the marker strings that summarize looks for (lines 99, 142 and 115, 146)
EF == "extraction failed"
CF == "compress failed"
\* the fixed summary of a paper without abstract (lines 121, 132)
NoAbstract == <<"*", "no abstract">>

\* x in text
Contains(text, x) == \E k \in 1..Len(text) : text[k] = x

\* str.strip()
RECURSIVE lstrip(_)
lstrip(t) == IF t # <<>> /\ Head(t) = "_" THEN lstrip(Tail(t)) ELSE t
RECURSIVE rstrip(_)
rstrip(t) ==
    IF t # <<>> /\ t[Len(t)] = "_" THEN rstrip(SubSeq(t, 1, Len(t) - 1)) ELSE t
strip(t) == rstrip(lstrip(t))

\* the sentences the model draws abstracts from: the number of vocabulary
\* words (_ALL_KW) found in the sentence, its length in characters, and the
\* sentence once "e.g." / "i.e." / "et al." are rewritten (line 47)
Hits(sent) == CASE sent = "S1" -> 1 [] sent = "S2" -> 0 [] sent = "Seg" -> 2
                [] sent = "Seg'" -> 2 [] OTHER -> 0
CharLen(sent) == CASE sent = "S1" -> 60 [] sent = "S2" -> 100 [] sent = "Seg" -> 122
                   [] sent = "Seg'" -> 120 [] sent = "S4" -> 90 [] OTHER -> 3
Rewritten(sent) == IF sent = "Seg" THEN "Seg'" ELSE sent

\* len() of the sentences joined by single spaces
RECURSIVE StrLen(_)
StrLen(t) ==
    IF t = <<>> THEN 0
    ELSE CharLen(Head(t)) + (IF Len(t) > 1 THEN 1 ELSE 0) + StrLen(Tail(t))

\* extract_key_sentences, default max_sentences (line 45)
default_max_sentences == 6
\* _rule_based_summary: max_sentences=3 and the 250 character budget
\* (lines 122-123)
fallback_max_sentences == 3
fallback_budget == 250
\* the _llm_failures value from which summarize and summarize_batch stop
\* calling the LLM (lines 135, 168)
llm_failure_limit == 6

\* extract_key_sentences(abstract, max_sentences)
\* faulty variant: a short abstract is returned as re.split cut it, with the
\* abbreviations rewritten
extract_key_sentences_mut_rewritten(abstract, max_sentences) ==
    LET sentences == [k \in 1..Len(abstract) |-> Rewritten(abstract[k])]
        n == Len(sentences)
        score(k) == Hits(sentences[k])
                    + (IF k = 1 THEN 2 ELSE IF k = n THEN 1 ELSE 0)
        rank(k) == Cardinality({j \in 1..n :
                        score(j) > score(k) \/ (score(j) = score(k) /\ j < k)})
        top == {k \in 1..n : rank(k) < max_sentences}
        nth(k) == CHOOSE j \in top : Cardinality({m \in top : m < j}) = k - 1
    IN IF n <= max_sentences THEN sentences
       ELSE [k \in 1..Cardinality(top) |-> sentences[nth(k)]]
extract_key_sentences(abstract, max_sentences) ==
    LET sentences == [k \in 1..Len(abstract) |-> Rewritten(abstract[k])]
        n == Len(sentences)
        score(k) == Hits(sentences[k])
                    + (IF k = 1 THEN 2 ELSE IF k = n THEN 1 ELSE 0)
        \* position of sentence k after the stable sort by score, descending
        rank(k) == Cardinality({j \in 1..n :
                        score(j) > score(k) \/ (score(j) = score(k) /\ j < k)})
        top == {k \in 1..n : rank(k) < max_sentences}
        \* the k-th smallest index in top
        nth(k) == CHOOSE j \in top : Cardinality({m \in top : m < j}) = k - 1
    IN IF n <= max_sentences THEN abstract
       ELSE [k \in 1..Cardinality(top) |-> sentences[nth(k)]]

\* the abstracts and the values of max_sentences that extract_key_sentences
\* is applied to
SentencePool == {"S1", "S2", "Seg", "S4"}
Abstracts == UNION {[1..n -> SentencePool] : n \in 0..MaxSentences}
MaxSentenceArgs == {1, 2, fallback_max_sentences, default_max_sentences}

\* key[:247] + "..." when len(key) > 250 (lines 123-124)
truncate(key) ==
    IF StrLen(key) > fallback_budget
       THEN <<"[:247]">> \o key \o <<"...">>
       ELSE key

\* papers: "missing" stands for a dict without the key arxiv_id
Papers ==
    { [arxiv_id |-> "a", title |-> "T", summary |-> <<"S1", "S2">>],
      [arxiv_id |-> "b", title |-> "T", summary |-> <<"S1", "S2", "Seg", "S4">>],
      [arxiv_id |-> "a", title |-> "T", summary |-> <<>>],
      [arxiv_id |-> "missing", title |-> "T", summary |-> <<"S1", "S2">>] }

\* paper.get("arxiv_id", f"unknown_{i}") (line 164)
UnknownIds == <<"unknown_1", "unknown_2", "unknown_3", "unknown_4", "unknown_5">>
\* faulty variant: the position is not part of the default key
PaperId_mut_first(paper, i) ==
    IF paper.arxiv_id = "missing" THEN UnknownIds[1] ELSE paper.arxiv_id
PaperId(paper, i) ==
    IF paper.arxiv_id = "missing" THEN UnknownIds[i] ELSE paper.arxiv_id

\* what one self.llm.chat(...) can do: return a text or raise an error
ChatErrorKinds == ErrorKinds \cup {"LLMCircuitOpenError"}
LLMTexts == {<<"_", "w", "_">>, <<"w", EF>>, <<CF, "w">>}
ChatOutcomes ==
    [ok : {TRUE}, text : LLMTexts, kind : {"None"}]
    \cup [ok : {FALSE}, text : {<<>>}, kind : ChatErrorKinds]

(* ---- PaperSummarizer -------------------------------------------------- *)
\* self._llm_failures >= 6 in summarize (line 135)
\* faulty variant: gives up one failure early
summarize_gives_up_mut_early(f) == f >= llm_failure_limit - 1
\* faulty variant: one failure more is needed
summarize_gives_up_mut_late(f) == f > llm_failure_limit
summarize_gives_up(f) == f >= llm_failure_limit
\* self._llm_failures >= 6 in summarize_batch (line 168)
batch_gives_up(f) == f >= llm_failure_limit

\* structured_extract: the returned text and self._llm_failures afterwards,
\* given the counter f before and what self.llm.chat does
\* faulty variants: a success does not clear the counter; an authentication
\* error is not counted
structured_extract_mut_noreset(f, key_text, title, o) ==
    IF o.ok
       THEN [ret |-> strip(o.text), failures |-> f]
       ELSE [ret |-> <<"- Problem:", EF, "- Method:", title,
                       "- Result: see paper", o.kind>>,
             failures |-> f + 1]
structured_extract_mut_auth(f, key_text, title, o) ==
    IF o.ok
       THEN [ret |-> strip(o.text), failures |-> 0]
       ELSE [ret |-> <<"- Problem:", EF, "- Method:", title,
                       "- Result: see paper", o.kind>>,
             failures |-> IF o.kind = "LLMAuthError" THEN f ELSE f + 1]
structured_extract(f, key_text, title, o) ==
    IF o.ok
       THEN [ret |-> strip(o.text), failures |-> 0]
       ELSE [ret |-> <<"- Problem:", EF, "- Method:", title,
                       "- Result: see paper", o.kind>>,
             failures |-> f + 1]

\* compress_summary
\* faulty variant: the failure text lacks the marker summarize looks for
compress_summary_mut_marker(f, structured_text, title, o) ==
    IF o.ok
       THEN [ret |-> strip(o.text), failures |-> 0]
       ELSE [ret |-> <<"*", "failed", o.kind>>, failures |-> f + 1]
compress_summary(f, structured_text, title, o) ==
    IF o.ok
       THEN [ret |-> strip(o.text), failures |-> 0]
       ELSE [ret |-> <<"*", CF, o.kind>>, failures |-> f + 1]

\* _rule_based_summary
\* faulty variants: no test for the empty abstract; no truncation
rule_based_summary_mut_noempty(paper) ==
    <<"*">> \o truncate(extract_key_sentences(paper.summary,
                                               fallback_max_sentences))
rule_based_summary_mut_notrunc(paper) ==
    IF paper.summary = <<>> THEN NoAbstract
    ELSE <<"*">> \o extract_key_sentences(paper.summary, fallback_max_sentences)
rule_based_summary(paper) ==
    IF paper.summary = <<>> THEN NoAbstract
    ELSE <<"*">> \o truncate(extract_key_sentences(paper.summary,
                                                    fallback_max_sentences))

\* summarize(paper): the returned summary, the counter afterwards, the number
\* of self.llm.chat calls made and what became of each stage call ("none" when
\* it was not made); o2 and o3 are what the chat of Stage 2 and of Stage 3 do
\* faulty variant: the text of a failed Stage 2 is handed to Stage 3
summarize_mut_downstream(f, paper, o2, o3) ==
    IF paper.summary = <<>>
       THEN [summary |-> NoAbstract, failures |-> f, calls |-> 0,
             s2 |-> "none", s3 |-> "none"]
    ELSE IF summarize_gives_up(f)
       THEN [summary |-> rule_based_summary(paper), failures |-> f, calls |-> 0,
             s2 |-> "none", s3 |-> "none"]
    ELSE
       LET key_text == extract_key_sentences(paper.summary, default_max_sentences)
           st2 == structured_extract(f, key_text, paper.title, o2)
           r2 == IF o2.ok THEN "ok" ELSE "fail"
       IN IF FALSE
             THEN [summary |-> rule_based_summary(paper), failures |-> st2.failures,
                   calls |-> 1, s2 |-> r2, s3 |-> "none"]
          ELSE
             LET st3 == compress_summary(st2.failures, st2.ret, paper.title, o3)
                 r3 == IF o3.ok THEN "ok" ELSE "fail"
             IN [summary |-> IF Contains(st3.ret, CF)
                                THEN rule_based_summary(paper) ELSE st3.ret,
                 failures |-> st3.failures, calls |-> 2, s2 |-> r2, s3 |-> r3]
summarize(f, paper, o2, o3) ==
    IF paper.summary = <<>>
       THEN [summary |-> NoAbstract, failures |-> f, calls |-> 0,
             s2 |-> "none", s3 |-> "none"]
    ELSE IF summarize_gives_up(f)
       THEN [summary |-> rule_based_summary(paper), failures |-> f, calls |-> 0,
             s2 |-> "none", s3 |-> "none"]
    ELSE
       LET key_text == extract_key_sentences(paper.summary, default_max_sentences)
           st2 == structured_extract(f, key_text, paper.title, o2)
           r2 == IF o2.ok THEN "ok" ELSE "fail"
       IN IF Contains(st2.ret, EF)
             THEN [summary |-> rule_based_summary(paper), failures |-> st2.failures,
                   calls |-> 1, s2 |-> r2, s3 |-> "none"]
          ELSE
             LET st3 == compress_summary(st2.failures, st2.ret, paper.title, o3)
                 r3 == IF o3.ok THEN "ok" ELSE "fail"
             IN [summary |-> IF Contains(st3.ret, CF)
                                THEN rule_based_summary(paper) ELSE st3.ret,
                 failures |-> st3.failures, calls |-> 2, s2 |-> r2, s3 |-> r3]

\* one iteration of the loop of summarize_batch for papers[i] of total papers:
\* the key and the value stored in results, the counter afterwards, whether
\* the iteration took the branch of line 168 (short) and whether it ended
\* with time.sleep(delay)
\* faulty variant: the delay does not look at the counter
batch_iteration_mut_sleep(f, paper, i, total, delay, o2, o3) ==
    IF batch_gives_up(f)
       THEN [id |-> PaperId(paper, i), summary |-> rule_based_summary(paper),
             failures |-> f, calls |-> 0, s2 |-> "none", s3 |-> "none",
             short |-> TRUE, slept |-> FALSE]
    ELSE
       LET r == summarize(f, paper, o2, o3) IN
       [id |-> PaperId(paper, i), summary |-> r.summary,
        failures |-> r.failures, calls |-> r.calls, s2 |-> r.s2, s3 |-> r.s3,
        short |-> FALSE,
        slept |-> (i < total /\ delay > 0)]
batch_iteration(f, paper, i, total, delay, o2, o3) ==
    IF batch_gives_up(f)
       THEN [id |-> PaperId(paper, i), summary |-> rule_based_summary(paper),
             failures |-> f, calls |-> 0, s2 |-> "none", s3 |-> "none",
             short |-> TRUE, slept |-> FALSE]
    ELSE
       LET r == summarize(f, paper, o2, o3) IN
       [id |-> PaperId(paper, i), summary |-> r.summary,
        failures |-> r.failures, calls |-> r.calls, s2 |-> r.s2, s3 |-> r.s3,
        short |-> FALSE,
        slept |-> (i < total /\ delay > 0 /\ r.failures < llm_failure_limit)]

(* ---- LLMClient.generate (src/llm_client/client.py) -------------------- *)
\* What the provider does to the attempts of one call of generate: remote[a]
\* is "ok", or the kind of the error fn() raises at attempt a (0-based).
RemoteKinds == {"LLMAuthError", "LLMServerError", "Exception"}
Fails(k) == [a \in 0..retries |-> k]
Ok == [a \in 0..retries |-> "ok"]
Remotes ==
    {Fails(k) : k \in RemoteKinds}
      \cup {Ok, [a \in 0..retries |-> IF a = 0 THEN "LLMServerError" ELSE "ok"]}
\* no attempt of the call succeeds
AllFail(remote) == \A a \in 0..retries : remote[a] # "ok"

\* the for loop of call_with_retry from attempt a on, run to its end: the
\* circuit and the time afterwards, what the call returns or raises, and the
\* number of invocations of fn()
RECURSIVE retry_loop(_, _, _, _)
retry_loop(c, t, a, remote) ==
    IF remote[a] = "ok"
       THEN [c |-> record_success(c), t |-> t,
             o |-> [ok |-> TRUE, text |-> <<"_", "w", "_">>, kind |-> "None"],
             attempts |-> a + 1]
    ELSE
       LET c1 == IF records_failure(remote[a], a) THEN record_failure(c, t) ELSE c
       IN IF retries_after(remote[a], a)
             THEN retry_loop(c1, t + wait(remote[a], a), a + 1, remote)
             ELSE [c |-> c1, t |-> t,
                   o |-> [ok |-> FALSE, text |-> <<>>, kind |-> remote[a]],
                   attempts |-> a + 1]

\* LLMClient.generate (and chat, which hands over to it): call_with_retry
\* on the circuit of the client; reached says whether fn() was invoked at all
\* faulty variant: the circuit is not consulted before the loop
generate_mut_nocheck(c, t, remote) ==
    LET r == retry_loop(state(c, t), t, 0, remote)
    IN [c |-> r.c, t |-> r.t, o |-> r.o, attempts |-> r.attempts,
        reached |-> TRUE]
generate(c, t, remote) ==
    LET chk == call_precheck(c, t)
    IN IF chk.rejected
          THEN [c |-> chk.c, t |-> t,
                o |-> [ok |-> FALSE, text |-> <<>>, kind |-> "LLMCircuitOpenError"],
                attempts |-> 0, reached |-> FALSE]
       ELSE LET r == retry_loop(chk.c, t, 0, remote)
            IN [c |-> r.c, t |-> r.t, o |-> r.o, attempts |-> r.attempts,
                reached |-> TRUE]

\* a generate call that is not made
NoCall(c, t) ==
    [c |-> c, t |-> t, o |-> [ok |-> FALSE, text |-> <<>>, kind |-> "None"],
     attempts |-> 0, reached |-> FALSE]

\* summarize(paper) with its chats going through generate: g2 and g3 are
\* the calls of Stage 2 and Stage 3, made only when summarize gets there
guarded_stage2(f, paper, c, t, remote) ==
    IF summarize(f, paper, NoCall(c, t).o, NoCall(c, t).o).calls >= 1
       THEN generate(c, t, remote)
       ELSE NoCall(c, t)
guarded_stage3(f, paper, g2, remote) ==
    IF summarize(f, paper, g2.o, NoCall(g2.c, g2.t).o).calls = 2
       THEN generate(g2.c, g2.t, remote)
       ELSE NoCall(g2.c, g2.t)

(* ---- scoring (src/scoring) -------------------------------------------- *)
\* Signal scores are counted in hundredths (0.67 is 67) and quality scores in
\* tenths (61.0 is 610).  A value of a paper dict is a record with a tag:
\* "absent" when the dict has no such key, "null" for None, otherwise the
\* type of the value.
Absent == [tag |-> "absent"]
Null == [tag |-> "null"]
IntVal(n) == [tag |-> "int", n |-> n]
StrVal(s) == [tag |-> "str", s |-> s]
BoolVal(b) == [tag |-> "bool", b |-> b]
\* a text, as the set of the words in it
TextVal(ws) == [tag |-> "text", words |-> ws]
\* a date string "YYYY-MM-DD...", as the number of its day
DateVal(d) == [tag |-> "date", day |-> d]
\* the list s2_authors, one entry per author: the author's "affiliations"
ListVal(l) == [tag |-> "list", items |-> l]

\* what a scorer's score(paper) does: return a score or raise
Returned(x) == [raised |-> FALSE, score |-> x]
Raised == [raised |-> TRUE, score |-> 0]

\* str.lower() on the words the model uses
Lower(w) ==
    CASE w = "NeurIPS" -> "neurips" [] w = "ICML" -> "icml"
      [] w = "Google" -> "google" [] w = "MIT" -> "mit"
      [] w = "LLM" -> "llm" [] OTHER -> w
\* TOP_VENUES and KNOWN_AFFILIATIONS, as far as the model's words go
TOP_VENUES == {"neurips", "icml"}
KNOWN_AFFILIATIONS == {"google", "mit"}

Min(a, b) == IF a <= b THEN a ELSE b

\* CitationScorer.score: the step function of the citation count
\* faulty variant: two of the steps are exchanged
cite_score_mut_swap(citations) ==
    IF citations >= 100 THEN 70
    ELSE IF citations >= 50 THEN 60
    ELSE IF citations >= 20 THEN 40
    ELSE IF citations >= 10 THEN 50
    ELSE IF citations >= 5 THEN 25
    ELSE IF citations >= 1 THEN 10
    ELSE 0
cite_score(citations) ==
    IF citations >= 100 THEN 70
    ELSE IF citations >= 50 THEN 60
    ELSE IF citations >= 20 THEN 50
    ELSE IF citations >= 10 THEN 40
    ELSE IF citations >= 5 THEN 25
    ELSE IF citations >= 1 THEN 10
    ELSE 0
\* CitationScorer.score: the step function of the influential citations
inf_score(influential) ==
    IF influential >= 10 THEN 30
    ELSE IF influential >= 5 THEN 20
    ELSE IF influential >= 1 THEN 10
    ELSE 0
\* paper.get(key, 0) >= n: a TypeError unless the value is a number
CountOf(v) == IF v.tag = "absent" THEN 0 ELSE v.n
CitationScorer_score(paper) ==
    IF paper.s2_citation_count.tag \notin {"absent", "int"} THEN Raised
    ELSE IF paper.s2_influential_citation_count.tag \notin {"absent", "int"}
       THEN Raised
    ELSE Returned(Min(cite_score(CountOf(paper.s2_citation_count))
                      + inf_score(CountOf(paper.s2_influential_citation_count)),
                      100))

\* the truth value Python gives to paper.get("cr_published")
Truthy(v) ==
    CASE v.tag = "bool" -> v.b
      [] v.tag = "int"  -> v.n # 0
      [] v.tag = "str"  -> v.s # ""
      [] OTHER          -> FALSE
\* VenueScorer.score
VenueScorer_score(paper) ==
    IF paper.s2_venue.tag \notin {"absent", "str"} THEN Raised
    ELSE LET venue == IF paper.s2_venue.tag = "absent" THEN ""
                      ELSE Lower(paper.s2_venue.s)
             top == IF venue # "" /\ venue \in TOP_VENUES THEN 60 ELSE 0
             pub == IF Truthy(paper.cr_published) THEN 40 ELSE 0
         IN Returned(Min(top + pub, 100))

\* AuthorScorer.score: the loops over the authors and their affiliations
\* raise on a None; any known affiliation gives the full score
\* faulty variant: the affiliation is compared as it is written
AuthorScorer_score_mut_case(paper) ==
    IF paper.s2_authors.tag \notin {"absent", "list"} THEN Raised
    ELSE LET authors == IF paper.s2_authors.tag = "absent" THEN <<>>
                        ELSE paper.s2_authors.items
         IN IF \E k \in 1..Len(authors) : authors[k].tag \notin {"absent", "list"}
               THEN Raised
            ELSE IF \E k \in 1..Len(authors) :
                       /\ authors[k].tag = "list"
                       /\ \E j \in 1..Len(authors[k].items) :
                             authors[k].items[j] \in KNOWN_AFFILIATIONS
               THEN Returned(100)
            ELSE Returned(0)
AuthorScorer_score(paper) ==
    IF paper.s2_authors.tag \notin {"absent", "list"} THEN Raised
    ELSE LET authors == IF paper.s2_authors.tag = "absent" THEN <<>>
                        ELSE paper.s2_authors.items
         IN IF \E k \in 1..Len(authors) : authors[k].tag \notin {"absent", "list"}
               THEN Raised
            ELSE IF \E k \in 1..Len(authors) :
                       /\ authors[k].tag = "list"
                       /\ \E j \in 1..Len(authors[k].items) :
                             Lower(authors[k].items[j]) \in KNOWN_AFFILIATIONS
               THEN Returned(100)
            ELSE Returned(0)

\* FreshnessScorer.score as a function of the age in days
\* faulty variant: decay_days is tested before the 14 days
freshness_of_age_mut_order(age_days, decay_days) ==
    IF age_days <= 1 THEN 100
    ELSE IF age_days <= 3 THEN 80
    ELSE IF age_days <= 7 THEN 60
    ELSE IF age_days <= decay_days THEN 20
    ELSE IF age_days <= 14 THEN 40
    ELSE 0
freshness_of_age(age_days, decay_days) ==
    IF age_days <= 1 THEN 100
    ELSE IF age_days <= 3 THEN 80
    ELSE IF age_days <= 7 THEN 60
    ELSE IF age_days <= 14 THEN 40
    ELSE IF age_days <= decay_days THEN 20
    ELSE 0
\* FreshnessScorer.score: a missing, empty or unparseable date gives 0
FreshnessScorer_score(paper, decay_days, today) ==
    IF paper.published.tag # "date" THEN Returned(0)
    ELSE Returned(freshness_of_age(today - paper.published.day, decay_days))

\* KeywordScorer.score: the number of keywords found in title + " " + summary
RECURSIVE Matched(_, _)
Matched(keywords, words) ==
    IF keywords = <<>> THEN 0
    ELSE (IF Lower(Head(keywords)) \in words THEN 1 ELSE 0)
         + Matched(Tail(keywords), words)
WordsOf(v) == IF v.tag = "absent" THEN {} ELSE {Lower(w) : w \in v.words}
keyword_of_matched(matched) ==
    IF matched >= 3 THEN 100
    ELSE IF matched >= 2 THEN 67
    ELSE IF matched >= 1 THEN 33
    ELSE 0
KeywordScorer_score(paper, keywords) ==
    IF keywords = <<>> THEN Returned(0)
    ELSE IF paper.title.tag \notin {"absent", "text"} THEN Raised
    ELSE IF paper.summary.tag \notin {"absent", "text"} THEN Raised
    ELSE Returned(keyword_of_matched(
             Matched(keywords, WordsOf(paper.title) \cup WordsOf(paper.summary))))

\* a scorer object: its class, its weight and the settings of its class
Scorer(name, weight) ==
    [name |-> name, weight |-> weight, keywords |-> <<>>, decay_days |-> 30]
\* s.score(paper)
scorer_score(s, paper, today) ==
    CASE s.name = "citation"  -> CitationScorer_score(paper)
      [] s.name = "author"    -> AuthorScorer_score(paper)
      [] s.name = "venue"     -> VenueScorer_score(paper)
      [] s.name = "freshness" -> FreshnessScorer_score(paper, s.decay_days, today)
      [] s.name = "keyword"   -> KeywordScorer_score(paper, s.keywords)

\* sum(s.weight for s in self.scorers)
RECURSIVE SumWeights(_)
SumWeights(scorers) ==
    IF scorers = <<>> THEN 0 ELSE Head(scorers).weight + SumWeights(Tail(scorers))
\* sum(s.score(paper) * s.weight for s in self.scorers), in hundredths
RECURSIVE WeightedSum(_, _, _)
WeightedSum(scorers, paper, today) ==
    IF scorers = <<>> THEN 0
    ELSE scorer_score(Head(scorers), paper, today).score * Head(scorers).weight
         + WeightedSum(Tail(scorers), paper, today)
\* some s.score(paper) raises
AnyRaises(scorers, paper, today) ==
    \E k \in 1..Len(scorers) : scorer_score(scorers[k], paper, today).raised

\* round(x, 1) of x = num / den with den > 0, in tenths.  A value halfway
\* between two tenths has no exact binary representation, so the float that
\* is rounded lies just above or just below it: which of the two depends on
\* the operands, and up says where it lies for this pipeline.
round1(num, den, up) ==
    LET q == (10 * num) \div den
        r == (10 * num) % den
    IN IF 2 * r < den THEN q
       ELSE IF 2 * r > den THEN q + 1
       ELSE IF up THEN q + 1 ELSE q

\* what each s.score(paper) returned, in the order of the scorers
Signals(scorers, paper, today) ==
    [k \in 1..Len(scorers) |-> scorer_score(scorers[k], paper, today).score]

\* ScoringPipeline.score_paper: what is returned or raised, the paper dict
\* afterwards, and what the scorers returned
\* faulty variants: the new score is added to the one the paper has; the
\* weighted sum is divided by 100 and not by the sum of the weights
score_paper_mut_accumulate(pipeline, paper, today) ==
    IF AnyRaises(pipeline.scorers, paper, today)
       THEN [raised |-> TRUE, score |-> 0, paper |-> paper, signals |-> <<>>]
    ELSE
       LET w == SumWeights(pipeline.scorers)
           total_weight == IF w = 0 THEN 1 ELSE w
           weighted_sum == WeightedSum(pipeline.scorers, paper, today)
           fresh == IF total_weight > 0
                       THEN round1(weighted_sum, total_weight, pipeline.ties_up)
                       ELSE round1(-weighted_sum, -total_weight, pipeline.ties_up)
           score == fresh + (IF paper.quality_score.tag = "int"
                                THEN paper.quality_score.n ELSE 0)
       IN [raised |-> FALSE, score |-> score,
           paper |-> [paper EXCEPT !.quality_score = IntVal(score)],
           signals |-> Signals(pipeline.scorers, paper, today)]
score_paper_mut_nonorm(pipeline, paper, today) ==
    IF AnyRaises(pipeline.scorers, paper, today)
       THEN [raised |-> TRUE, score |-> 0, paper |-> paper, signals |-> <<>>]
    ELSE
       LET w == SumWeights(pipeline.scorers)
           total_weight == 100
           weighted_sum == WeightedSum(pipeline.scorers, paper, today)
           fresh == IF total_weight > 0
                       THEN round1(weighted_sum, total_weight, pipeline.ties_up)
                       ELSE round1(-weighted_sum, -total_weight, pipeline.ties_up)
           score == fresh
       IN [raised |-> FALSE, score |-> score,
           paper |-> [paper EXCEPT !.quality_score = IntVal(score)],
           signals |-> Signals(pipeline.scorers, paper, today)]
score_paper(pipeline, paper, today) ==
    IF AnyRaises(pipeline.scorers, paper, today)
       THEN [raised |-> TRUE, score |-> 0, paper |-> paper, signals |-> <<>>]
    ELSE
       LET w == SumWeights(pipeline.scorers)
           total_weight == IF w = 0 THEN 1 ELSE w
           weighted_sum == WeightedSum(pipeline.scorers, paper, today)
           fresh == IF total_weight > 0
                       THEN round1(weighted_sum, total_weight, pipeline.ties_up)
                       ELSE round1(-weighted_sum, -total_weight, pipeline.ties_up)
           score == fresh
       IN [raised |-> FALSE, score |-> score,
           paper |-> [paper EXCEPT !.quality_score = IntVal(score)],
           signals |-> Signals(pipeline.scorers, paper, today)]

\* paper.get("quality_score", 0)
QualityKey(paper) ==
    IF paper.quality_score.tag = "int" THEN paper.quality_score.n ELSE 0
\* list.sort(key=..., reverse=True): stable, larger keys first
\* faulty variant: smaller keys first
sort_desc_mut_asc(papers) ==
    LET n == Len(papers)
        rank(k) == Cardinality({j \in 1..n :
                       \/ QualityKey(papers[j]) < QualityKey(papers[k])
                       \/ QualityKey(papers[j]) = QualityKey(papers[k]) /\ j < k})
    IN [r \in 1..n |-> papers[CHOOSE k \in 1..n : rank(k) = r - 1]]
sort_desc(papers) ==
    LET n == Len(papers)
        rank(k) == Cardinality({j \in 1..n :
                       \/ QualityKey(papers[j]) > QualityKey(papers[k])
                       \/ QualityKey(papers[j]) = QualityKey(papers[k]) /\ j < k})
    IN [r \in 1..n |-> papers[CHOOSE k \in 1..n : rank(k) = r - 1]]

\* the loop of rank_papers over papers[k..]: the list once every paper is
\* scored, or the list as it is when a score_paper raises
RECURSIVE score_all(_, _, _, _)
score_all(pipeline, papers, k, today) ==
    IF k > Len(papers) THEN [raised |-> FALSE, papers |-> papers]
    ELSE LET r == score_paper(pipeline, papers[k], today)
         IN IF r.raised THEN [raised |-> TRUE, papers |-> papers]
            ELSE score_all(pipeline, [papers EXCEPT ![k] = r.paper], k + 1, today)
\* ScoringPipeline.rank_papers
rank_papers(pipeline, papers, today) ==
    LET scored == score_all(pipeline, papers, 1, today)
    IN IF scored.raised THEN scored
       ELSE [raised |-> FALSE, papers |-> sort_desc(scored.papers)]

\* a paper dict, as far as the scorers read or write it
Paper(id, cit, inf, venue, pub, authors, published, title) ==
    [arxiv_id |-> id, s2_citation_count |-> cit,
     s2_influential_citation_count |-> inf, s2_venue |-> venue,
     cr_published |-> pub, s2_authors |-> authors, published |-> published,
     title |-> title, summary |-> Absent, quality_score |-> Absent]

\* datetime.now(), in days, when the model starts
Today == 40

\* KeywordScorer(keywords=settings.bonus_keywords), as far as the model's
\* words go
bonus_keywords == <<"LLM", "reasoning", "transformer">>

\* the values the model gives to the fields of a paper
CitVals == {Absent, Null, IntVal(100)}
InfVals == {IntVal(0), IntVal(10)}
VenueVals == {Absent, Null, StrVal("NeurIPS")}
PubVals == {Absent, BoolVal(TRUE)}
AuthorVals == {Absent, Null, ListVal(<<ListVal(<<"Google">>)>>)}
PublishedVals == {StrVal("yesterday"), DateVal(Today - 9)}
TitleVals == {Null, TextVal({}), TextVal({"LLM", "reasoning", "transformer"})}
PaperPool ==
    {Paper("p", c, i, v, b, a, d, t) :
        c \in CitVals, i \in InfVals, v \in VenueVals, b \in PubVals,
        a \in AuthorVals, d \in PublishedVals, t \in TitleVals}

\* the three papers of the end-to-end scenario
PaperA ==
    Paper("A", IntVal(100), IntVal(10), StrVal("NeurIPS"), BoolVal(TRUE),
          ListVal(<<ListVal(<<"Google">>)>>), DateVal(Today - 1),
          TextVal({"LLM", "reasoning", "transformer"}))
PaperB ==
    Paper("B", IntVal(0), IntVal(0), StrVal(""), BoolVal(FALSE),
          ListVal(<<>>), DateVal(Today - 40), TextVal({}))
PaperC ==
    Paper("C", IntVal(10), IntVal(0), StrVal("ICML"), BoolVal(FALSE),
          ListVal(<<ListVal(<<"MIT">>)>>), DateVal(Today - 2),
          TextVal({"LLM"}))
RankPool == {PaperA, PaperB, PaperC}

\* the list of the end-to-end scenario, in two orders
ScenarioLists == {<<PaperA, PaperB, PaperC>>, <<PaperB, PaperC, PaperA>>}

\* the lists score_paper and rank_papers are applied to
ScoringInputs ==
    {<<p>> : p \in PaperPool} \cup ScenarioLists
        \cup UNION {[1..n -> RankPool] : n \in 0..MaxRank}

\* citation counts and ages around every threshold, and settings of
\* decay_days below, at and above the 14 days
CitCounts == {-1, 0, 1, 4, 5, 9, 10, 19, 20, 49, 50, 99, 100, 150}
Ages == -1..(MaxDay + 1)
DecayDays == {0, 2, 5, 10, 14, 30}

\* the default policy of PaperAggregator.__init__ with every weight times k
DefaultScorers(k) ==
    << Scorer("citation", 30 * k), Scorer("author", 20 * k),
       Scorer("venue", 20 * k), Scorer("freshness", 15 * k),
       [Scorer("keyword", 15 * k) EXCEPT !.keywords = bonus_keywords] >>
\* the scorer lists pipelines are built from
ScorerLists ==
    { DefaultScorers(1),
      <<>>,
      << Scorer("citation", 0),
         [Scorer("keyword", 0) EXCEPT !.keywords = bonus_keywords] >>,
      << Scorer("citation", 2), Scorer("author", -1) >>,
      << [Scorer("freshness", 1) EXCEPT !.decay_days = 10],
         [Scorer("keyword", 2) EXCEPT !.keywords = <<"LLM", "llm">>] >> }
\* ScoringPipeline(scorers); ties_up: see round1
Pipeline(scorers, up) == [scorers |-> scorers, ties_up |-> up]
\* the factors by which the model scales the weights of a pipeline
ScaleFactors == {3}
Scaled(scorers, k) ==
    [j \in 1..Len(scorers) |-> [scorers[j] EXCEPT !.weight = @ * k]]

(* ---- enrichment (src/agents/semantic_agent.py, crossref_agent.py) ------ *)
\* a paper dict as the aggregator passes it on: the keys the scorers read
\* and the keys the two enrichment passes write
RawPaper(id, title, published) ==
    [arxiv_id |-> id, title |-> title, published |-> published,
     summary |-> Absent, quality_score |-> Absent,
     s2_citation_count |-> Absent, s2_influential_citation_count |-> Absent,
     s2_venue |-> Absent, s2_publication_types |-> Absent,
     s2_authors |-> Absent,
     cr_published |-> Absent, cr_journal |-> Absent, cr_doi |-> Absent,
     cr_publisher |-> Absent]

\* x or d, for a value x that came from data.get(key, d) or data.get(key)
OrDefault(x, d) ==
    IF x \in {Absent, Null, IntVal(0), StrVal(""), ListVal(<<>>)} THEN d ELSE x
\* paper.setdefault(key, d): the value of the key afterwards
SetDefault(x, d) == IF x = Absent THEN d ELSE x

\* what batch_get_papers has for one arXiv id: no entry (the request failed,
\* or the service had nothing), or the record of the paper
NoData == [found |-> FALSE]
S2Record(cit, inf, venue, types, authors) ==
    [found |-> TRUE, citationCount |-> cit, influentialCitationCount |-> inf,
     venue |-> venue, publicationTypes |-> types, authors |-> authors]
S2Full ==
    S2Record(IntVal(100), IntVal(10), StrVal("NeurIPS"),
             ListVal(<<"Conference">>), ListVal(<<ListVal(<<"Google">>)>>))
S2Nulls == S2Record(Null, Null, Null, Null, Null)
S2Responses == {NoData, S2Full, S2Nulls}

\* the entry of s2_authors for one author of the record
s2_author(a) == OrDefault(a, ListVal(<<>>))
\* SemanticScholarClient.enrich_papers: what the loop does to one paper,
\* data being s2_data.get(paper.get("arxiv_id", ""))
\* faulty variant: a paper without data gets the defaults assigned
s2_enrich_paper_mut_assign(paper, data) ==
    IF data.found
       THEN [paper EXCEPT
               !.s2_citation_count = OrDefault(data.citationCount, IntVal(0)),
               !.s2_influential_citation_count =
                   OrDefault(data.influentialCitationCount, IntVal(0)),
               !.s2_venue = OrDefault(data.venue, StrVal("")),
               !.s2_publication_types =
                   OrDefault(data.publicationTypes, ListVal(<<>>)),
               !.s2_authors =
                   LET l == OrDefault(data.authors, ListVal(<<>>)).items
                   IN ListVal([k \in 1..Len(l) |-> s2_author(l[k])])]
       ELSE [paper EXCEPT
               !.s2_citation_count = IntVal(0),
               !.s2_influential_citation_count = IntVal(0),
               !.s2_venue = StrVal(""),
               !.s2_authors = ListVal(<<>>),
               !.s2_publication_types = ListVal(<<>>)]
s2_enrich_paper(paper, data) ==
    IF data.found
       THEN [paper EXCEPT
               !.s2_citation_count = OrDefault(data.citationCount, IntVal(0)),
               !.s2_influential_citation_count =
                   OrDefault(data.influentialCitationCount, IntVal(0)),
               !.s2_venue = OrDefault(data.venue, StrVal("")),
               !.s2_publication_types =
                   OrDefault(data.publicationTypes, ListVal(<<>>)),
               !.s2_authors =
                   LET l == OrDefault(data.authors, ListVal(<<>>)).items
                   IN ListVal([k \in 1..Len(l) |-> s2_author(l[k])])]
       ELSE [paper EXCEPT
               !.s2_citation_count = SetDefault(@, IntVal(0)),
               !.s2_influential_citation_count = SetDefault(@, IntVal(0)),
               !.s2_venue = SetDefault(@, StrVal("")),
               !.s2_authors = SetDefault(@, ListVal(<<>>)),
               !.s2_publication_types = SetDefault(@, ListVal(<<>>))]

\* batch_get_papers(arxiv_ids): the mapping, s2[id] being what the service has
\* for the id; a paper without arxiv_id is not asked for
s2_data(s2, paper) ==
    IF paper.arxiv_id = "" THEN NoData ELSE s2[paper.arxiv_id]
\* SemanticScholarClient.enrich_papers(papers)
s2_enrich_papers(papers, s2) ==
    [k \in 1..Len(papers) |-> s2_enrich_paper(papers[k], s2_data(s2, papers[k]))]

\* what self._get answers to the query for one title: None (the request
\* failed), a message without items, or a first item; the item is told by
\* whether the two titles agree on their first characters (agrees), whether
\* the shorter of the two has more than 10 characters (long), its
\* container-title and its DOI
CrFailed == [kind |-> "failed"]
CrNoItems == [kind |-> "no_items"]
CrItem(agrees, long, container, doi) ==
    [kind |-> "item", agrees |-> agrees, long |-> long,
     container |-> container, doi |-> doi]
CrResponses ==
    {CrFailed, CrNoItems,
     CrItem(TRUE, TRUE, <<"Nature">>, StrVal("10.1/x")),
     CrItem(TRUE, TRUE, <<>>, StrVal("10.1/y")),
     CrItem(FALSE, TRUE, <<"Nature">>, StrVal("10.1/x")),
     CrItem(FALSE, FALSE, <<"Science">>, StrVal("10.1/z"))}
\* whether the lookup gave no record for the title
CrNothing(resp) == resp.kind \in {"failed", "no_items"}

\* CrossrefClient.check_published(title): the dict returned
CrDefaults ==
    [published |-> BoolVal(FALSE), journal |-> StrVal(""), doi |-> StrVal(""),
     publisher |-> StrVal("")]
check_published(resp) ==
    IF resp.kind \in {"failed", "no_items"} THEN CrDefaults
    ELSE IF resp.long /\ ~resp.agrees THEN CrDefaults
    ELSE [published |-> BoolVal(resp.container # <<>>),
          journal |-> IF resp.container # <<>> THEN StrVal(resp.container[1])
                                               ELSE StrVal(""),
          doi |-> resp.doi,
          publisher |-> StrVal("P")]

\* `not title` for the title of a paper
NoTitle(title) == title \in {Absent, Null, TextVal({})}
\* CrossrefClient.enrich_papers: what the loop does to one paper
\* faulty variant: the paper is left alone when nothing was found
cr_enrich_paper_mut_keep(paper, resp) ==
    IF NoTitle(paper.title) \/ CrNothing(resp) THEN paper
    ELSE LET info == check_published(resp)
         IN [paper EXCEPT !.cr_published = info.published,
                          !.cr_journal = info.journal,
                          !.cr_doi = info.doi,
                          !.cr_publisher = info.publisher]
cr_enrich_paper(paper, resp) ==
    IF NoTitle(paper.title) THEN paper
    ELSE LET info == check_published(resp)
         IN [paper EXCEPT !.cr_published = info.published,
                          !.cr_journal = info.journal,
                          !.cr_doi = info.doi,
                          !.cr_publisher = info.publisher]
\* CrossrefClient.enrich_papers(papers), cr[k] being the answer to the query
\* for the title of the k-th paper
cr_enrich_papers(papers, cr) ==
    [k \in 1..Len(papers) |-> cr_enrich_paper(papers[k], cr[k])]

\* the papers the passes are applied to, and the lists of them
EnrichIds == {"A", "B"}
EnrichPool ==
    {RawPaper("A", TextVal({"LLM"}), DateVal(Today - 1)),
     RawPaper("B", TextVal({}), DateVal(Today - 2)),
     RawPaper("", TextVal({"LLM"}), DateVal(Today - 1))}
EnrichLists == UNION {[1..n -> EnrichPool] : n \in 1..MaxEnriched}

(* ---- ArxivDatabase (src/utils/database.py) ---------------------------- *)
\* The database is a record of its five tables.  papers, authors and
\* categories are sequences of rows in the order of their AUTOINCREMENT ids
\* (nothing is ever deleted, and a rollback takes back the ids it gave), so
\* that the id of a row is its position; paper_authors and paper_categories
\* are sets of rows.
EmptyDb ==
    [papers |-> <<>>, authors |-> <<>>, paper_authors |-> {},
     categories |-> <<>>, paper_categories |-> {}]

\* SELECT id FROM authors WHERE name = ?: the id, or 0 for no row
RowId(names, name) ==
    IF \E k \in 1..Len(names) : names[k] = name
       THEN CHOOSE k \in 1..Len(names) : names[k] = name
       ELSE 0

\* the row INSERT INTO papers writes, as far as the model keeps it
PaperRow(paper_id, paper) ==
    [id |-> paper_id, arxiv_id |-> paper.arxiv_id, title |-> paper.title]

\* the loop over the authors from position k on; ok is FALSE when an INSERT
\* INTO paper_authors meets its PRIMARY KEY (paper_id, author_id) again
RECURSIVE insert_authors(_, _, _, _)
insert_authors(db, paper_id, names, k) ==
    IF k > Len(names) THEN [ok |-> TRUE, db |-> db]
    ELSE LET row == RowId(db.authors, names[k])
             db1 == IF row # 0 THEN db
                    ELSE [db EXCEPT !.authors = Append(@, names[k])]
             author_id == IF row # 0 THEN row ELSE Len(db1.authors)
         IN IF \E pa \in db1.paper_authors :
                  pa.paper_id = paper_id /\ pa.author_id = author_id
               THEN [ok |-> FALSE, db |-> db1]
            ELSE insert_authors(
                    [db1 EXCEPT !.paper_authors = @ \cup
                        {[paper_id |-> paper_id, author_id |-> author_id,
                          author_order |-> k - 1]}],
                    paper_id, names, k + 1)

\* the loop over the categories from position k on
RECURSIVE insert_categories(_, _, _, _)
insert_categories(db, paper_id, names, k) ==
    IF k > Len(names) THEN [ok |-> TRUE, db |-> db]
    ELSE LET row == RowId(db.categories, names[k])
             db1 == IF row # 0 THEN db
                    ELSE [db EXCEPT !.categories = Append(@, names[k])]
             cat_id == IF row # 0 THEN row ELSE Len(db1.categories)
         IN IF \E pc \in db1.paper_categories :
                  pc.paper_id = paper_id /\ pc.category_id = cat_id
               THEN [ok |-> FALSE, db |-> db1]
            ELSE insert_categories(
                    [db1 EXCEPT !.paper_categories = @ \cup
                        {[paper_id |-> paper_id, category_id |-> cat_id]}],
                    paper_id, names, k + 1)

\* ArxivDatabase.insert_paper: the database afterwards and the value
\* returned.  An IntegrityError (arxiv_id UNIQUE, or one of the two PRIMARY
\* KEYs) is answered by rollback and False: the database is as it was at the
\* last commit, which is the database the call started with.
\* faulty variant: INSERT OR REPLACE, a stored arxiv_id gets the new row
insert_paper_mut_replace(db, paper) ==
    IF \E k \in 1..Len(db.papers) : db.papers[k].arxiv_id = paper.arxiv_id
       THEN LET k == CHOOSE j \in 1..Len(db.papers) :
                         db.papers[j].arxiv_id = paper.arxiv_id
            IN [returned |-> TRUE,
                db |-> [db EXCEPT !.papers[k] = PaperRow(k, paper)]]
    ELSE
       LET paper_id == Len(db.papers) + 1
           db1 == [db EXCEPT !.papers = Append(@, PaperRow(paper_id, paper))]
           a == insert_authors(db1, paper_id, paper.authors, 1)
           c == insert_categories(a.db, paper_id, paper.categories, 1)
       IN IF ~a.ok THEN [returned |-> FALSE, db |-> db]
          ELSE IF ~c.ok THEN [returned |-> FALSE, db |-> db]
          ELSE [returned |-> TRUE, db |-> c.db]
insert_paper(db, paper) ==
    IF \E k \in 1..Len(db.papers) : db.papers[k].arxiv_id = paper.arxiv_id
       THEN [returned |-> FALSE, db |-> db]
    ELSE
       LET paper_id == Len(db.papers) + 1
           db1 == [db EXCEPT !.papers = Append(@, PaperRow(paper_id, paper))]
           a == insert_authors(db1, paper_id, paper.authors, 1)
           c == insert_categories(a.db, paper_id, paper.categories, 1)
       IN IF ~a.ok THEN [returned |-> FALSE, db |-> db]
          ELSE IF ~c.ok THEN [returned |-> FALSE, db |-> db]
          ELSE [returned |-> TRUE, db |-> c.db]

\* get_paper_by_arxiv_id: the rows with this arxiv_id
get_paper_by_arxiv_id(db, arxiv_id) ==
    {db.papers[k] : k \in {j \in 1..Len(db.papers) :
                              db.papers[j].arxiv_id = arxiv_id}}

\* the papers insert_paper is called with
ArxivIds == 1..MaxStored
DbTitles == {"T", "U"}
DbAuthors == {<<>>, <<"Alice">>, <<"Alice", "Bob">>, <<"Bob", "Bob">>}
DbCategories == {<<"cs.AI">>, <<"cs.LG", "cs.AI">>, <<"cs.AI", "cs.AI">>}
DbPapers ==
    { [arxiv_id |-> i, title |-> t, authors |-> a, categories |-> c] :
        i \in ArxivIds, t \in DbTitles, a \in DbAuthors, c \in DbCategories }

(* ---- PaperAggregator.run_pipeline (src/agents/aggregator.py) ----------- *)
\* the paper dicts fetch_recent_papers creates, by arxiv_id; the lists of
\* run_pipeline hold references to them
PipeIds == {"A", "B", "C"}
PipeDicts ==
    [id \in PipeIds |->
       CASE id = "A" -> [RawPaper("A", TextVal({"LLM"}), DateVal(Today - 1))
                           EXCEPT !.summary = TextVal({"reasoning"})]
         [] id = "B" -> [RawPaper("B", TextVal({}), DateVal(Today - 40))
                           EXCEPT !.summary = TextVal({})]
         [] OTHER    -> [RawPaper("C", TextVal({"transformer"}), DateVal(Today - 2))
                           EXCEPT !.summary = TextVal({"x"})]]
\* what fetch_recent_papers returns
PipeLists == {<<>>, <<"A">>, <<"B", "C", "A">>}
\* settings.top_n, and whether settings.research_interests is set
TopNs == {1, 2}
PipeSettings == [top_n : TopNs, research_interests : BOOLEAN]
\* ScoringPipeline([...]) of __init__
PipeScorer == Pipeline(DefaultScorers(1), FALSE)

\* the list of the dicts the references point to
Materialize(dicts, refs) == [k \in 1..Len(refs) |-> dicts[refs[k]]]
\* the dicts after a call has changed the dicts of a list in place
WriteBack(dicts, list) ==
    [id \in DOMAIN dicts |->
       IF \E k \in 1..Len(list) : list[k].arxiv_id = id
          THEN list[CHOOSE k \in 1..Len(list) : list[k].arxiv_id = id]
          ELSE dicts[id]]
\* the references of a list of dicts
Refs(list) == [k \in 1..Len(list) |-> list[k].arxiv_id]
\* l[:n]
Take(l, n) == SubSeq(l, 1, IF n < Len(l) THEN n ELSE Len(l))

\* _keyword_prefilter(papers, top_k): stable sort by the number of keywords
\* found, larger first, then the first top_k
filter_top_k == 10
KeywordHits(paper) ==
    Matched(bonus_keywords, WordsOf(paper.title) \cup WordsOf(paper.summary))
keyword_prefilter(dicts, refs) ==
    LET n == Len(refs)
        hits(k) == KeywordHits(dicts[refs[k]])
        rank(k) == Cardinality({j \in 1..n :
                       \/ hits(j) > hits(k)
                       \/ hits(j) = hits(k) /\ j < k})
    IN Take([r \in 1..n |-> refs[CHOOSE k \in 1..n : rank(k) = r - 1]],
            filter_top_k)

\* the lines of the response of the filter call that pass the test of
\* length and ".": arXiv ids of the list, or other text
FilterResponses == {<<>>, <<"B", "A">>, <<"Z", "C">>, <<"Z">>}
\* _filter_relevant(papers, research_interests): g is the generate call,
\* lines the usable lines of its response
filter_relevant(dicts, refs, g, lines) ==
    LET known == {refs[k] : k \in 1..Len(refs)}
        result == SelectSeq(lines, LAMBDA aid : aid \in known)
    IN IF g.o.ok /\ result # <<>> THEN Take(result, filter_top_k)
       ELSE keyword_prefilter(dicts, refs)

\* what the remote does to the generate call of the filter, and to the calls
\* of summarize_batch
FilterRemotes == {Ok, Fails("Exception"), Fails("LLMAuthError")}
PipeScripts ==
    {[j \in 0..1 |-> r] : r \in {Ok, Fails("LLMAuthError"), Fails("Exception")}}
      \cup {[j \in 0..1 |-> IF j = 0 THEN Ok ELSE Fails("LLMAuthError")]}
\* what Semantic Scholar has for the ids, and what Crossref answers
S2Maps ==
    {[id \in PipeIds |-> NoData], [id \in PipeIds |-> S2Full],
     [id \in PipeIds |-> IF id = "C" THEN S2Full ELSE NoData]}
PipeCrResponses ==
    {CrFailed, CrItem(TRUE, TRUE, <<"Nature">>, StrVal("10.1/x"))}

\* the paper as summarize_batch reads it
SumView(paper) ==
    [arxiv_id |-> paper.arxiv_id, title |-> "T",
     summary |-> IF WordsOf(paper.summary) = {} THEN <<>> ELSE <<"S1", "S2">>]
\* _fallback_summaries(papers): the ids that get a summary
fallback_summaries(papers) ==
    {papers[k].arxiv_id : k \in {j \in 1..Len(papers) :
                                    SumView(papers[j]).summary # <<>>}}
\* the paper as insert_paper reads it
DbView(paper) ==
    [arxiv_id |-> CASE paper.arxiv_id = "A" -> 1 [] paper.arxiv_id = "B" -> 2
                    [] OTHER -> 3,
     title |-> "T", authors |-> <<"Alice">>, categories |-> <<"cs.AI">>]
\* sum(1 for p in papers if self.db.insert_paper(p)): the database afterwards
RECURSIVE insert_all(_, _, _, _)
insert_all(db0, dicts, refs, k) ==
    IF k > Len(refs) THEN db0
    ELSE insert_all(insert_paper(db0, DbView(dicts[refs[k]])).db, dicts, refs,
                    k + 1)

(* ---- state ------------------------------------------------------------ *)
VARIABLES
    circuit,    \* the CircuitBreaker object of the LLMClient
    now,        \* time.time()
    pc,         \* "idle", or "loop" while a call_with_retry is in its for loop
    attempt,    \* loop variable of call_with_retry
    last_err,   \* local last_err of call_with_retry: [kind, at] or NoErr
    ev,         \* the most recent operation and what it returned / did
    consec,     \* record_failure calls since the last record_success / reset
    openedAt,   \* time of the change of state into OPEN, -1 when not OPEN
    hoInv       \* invocations of fn() made while the circuit is HALF_OPEN

\* the state of the circuit breaker and of call_with_retry
cvars == <<circuit, now, pc, attempt, last_err, ev, consec, openedAt, hoInv>>

\* the state of the PaperSummarizer (src/summarizer/llm_summarizer.py)
VARIABLES
    llm_failures,   \* self._llm_failures
    spc,            \* "idle", or "batch" while summarize_batch is in its loop
    bpapers,        \* summarize_batch: the list papers
    bdelay,         \* summarize_batch: the argument delay
    bi,             \* summarize_batch: papers handled so far (i of the last one)
    results,        \* summarize_batch: the dict results
    slast,          \* what the handling of the most recent paper did
    sinceOk,        \* failed stage calls since the last successful stage call
    ballFail        \* every stage call made since the batch began has failed

svars == <<llm_failures, spc, bpapers, bdelay, bi, results, slast, sinceOk, ballFail>>

\* the state of the scoring (src/scoring/base_score.py)
VARIABLES
    qpipeline,      \* the ScoringPipeline object
    qpapers,        \* the list of paper dicts the caller holds
    qnow,           \* datetime.now(), in days
    qlast           \* what the most recent score_paper / rank_papers did

qvars == <<qpipeline, qpapers, qnow, qlast>>

\* extract_key_sentences: the call (xpc is "idle" before one and "done"
\* after it), its arguments and what it returned
VARIABLES
    xpc,
    xabstract,
    xmax_sentences,
    xresult
xvars == <<xpc, xabstract, xmax_sentences, xresult>>

\* the database, and the last call of insert_paper with what it returned
VARIABLES
    db,
    dlast
dvars == <<db, dlast>>

\* observer of the operations whose chats go through the circuit: what the
\* last of them did
VARIABLES
    glast,
    gops            \* the number of these operations so far
gvars == <<glast, gops>>

\* the list of paper dicts the enrichment passes work on, and what the last
\* operation on it was: found[k] says whether the lookup gave a record for
\* the k-th paper
VARIABLES
    epapers,
    elast
evars == <<epapers, elast>>

\* run_pipeline: its position, its locals and what it has observed
VARIABLES
    ppc,            \* the step of run_pipeline that is next, "idle" outside
    psettings,      \* s = self.settings
    pdicts,         \* the paper dicts of this run, by arxiv_id
    ppapers,        \* papers: references to the dicts
    relevant,       \* relevant
    top_papers,     \* top_papers
    summaries,      \* the ids summaries has a text for
    pruns,          \* the number of calls of run_pipeline so far
    pfilter,        \* the circuit when the filter step was over
    pstart,         \* the circuit when summarize_batch was entered
    pdb0            \* the database when run_pipeline was entered
pvars == <<ppc, psettings, pdicts, ppapers, relevant, top_papers, summaries,
           pruns, pfilter, pstart, pdb0>>

vars == <<cvars, svars, qvars, xvars, dvars, gvars, evars, pvars>>

\* qlast: op = "score_paper" or "rank_papers", or "make" / "load" / "day" when
\* the pipeline, the list or the day changed since; k = position of the paper
\* scored; raised = the call raised; score = what score_paper returned, in
\* tenths; signals = what the scorers returned, in hundredths; scaled = the
\* weights of the pipeline were scaled since the call
QLast(op) ==
    [op |-> op, k |-> 0, raised |-> FALSE, score |-> 0, signals |-> <<>>,
     scaled |-> FALSE]

\* ev: op = operation name; from = circuit state before it; ret = what it
\* returned ("True"/"False", a state name, "return", "raise", "None");
\* err = the raised error; val = the returned value; inv = invocations of
\* fn(); sleeps = number of time.sleep calls; rec = record_failure calls made;
\* lastKind = what the latest fn() did ("ok" or the error kind); lastSlept =
\* whether a time.sleep followed the latest fn(); suggested = the Retry-After
\* of the response the latest fn() got
Ev(op, from, ret) ==
    [op |-> op, from |-> from, ret |-> ret, err |-> NoErr, val |-> "None",
     inv |-> 0, sleeps |-> 0, rec |-> 0, lastKind |-> "None",
     lastSlept |-> FALSE, suggested |-> 0]

BoolStr(b) == IF b THEN "True" ELSE "False"

\* bookkeeping of the observers when the circuit goes from c to d at time t
OpenedAtAfter(c, d, t) ==
    CASE d.state # "OPEN" -> -1
      [] c.state # "OPEN" -> t
      [] OTHER            -> openedAt
HoInvAfter(d, k) == IF d.state = "HALF_OPEN" THEN k ELSE 0

\* slast: op = "summarize" or "batch" (a loop iteration of summarize_batch),
\* "begin" / "return" when summarize_batch was entered / left; paper, i = the paper handled and
\* its 1-based position; id, summary = the key and the value stored or
\* returned; before = the counter before; calls = self.llm.chat calls made;
\* s2, s3 = what became of the stage calls; short = the branch of line 168 was
\* taken; slept = the iteration ended with time.sleep(delay); text3 = the text
\* the chat of Stage 3 returned
NoPaper == [arxiv_id |-> "missing", title |-> "", summary |-> <<>>]
SLast(op) ==
    [op |-> op, paper |-> NoPaper, i |-> 0, id |-> "None", summary |-> <<>>,
     before |-> 0, calls |-> 0, s2 |-> "none", s3 |-> "none", text3 |-> <<>>,
     short |-> FALSE, slept |-> FALSE]

EmptyMap == [x \in {} |-> <<>>]

\* the lists summarize_batch is called with, and the values of delay
\* (0, and 1 for a positive delay)
BatchInputs == UNION {[1..n -> Papers] : n \in 0..MaxPapers}
Delays == {0, 1}

\* what the chat of Stage 3 can do when Stage 2 did o2: nothing to choose
\* when summarize does not reach compress_summary
NoChat == [ok |-> FALSE, text |-> <<>>, kind |-> "None"]
Stage3Outcomes(f, paper, o2) ==
    IF summarize(f, paper, o2, NoChat).calls = 2 THEN ChatOutcomes ELSE {NoChat}
Stage2Outcomes(f, paper) ==
    IF summarize(f, paper, NoChat, NoChat).calls >= 1 THEN ChatOutcomes ELSE {NoChat}

\* bookkeeping of the observer: failed stage calls since the last success
SinceOkAfter(k, s2, s3) ==
    CASE s3 = "ok"   -> 0
      [] s3 = "fail" -> 1
      [] s2 = "ok"   -> 0
      [] s2 = "fail" -> k + 1
      [] OTHER       -> k

\* whether a call of generate made now finds that the cooldown has elapsed
Cooled(c, t) == c.state = "OPEN" /\ state(c, t).state # "OPEN"

\* the papers and the lists of the batches whose chats go through generate:
\* a batch is told by which of its papers have an abstract
WithAbstract == [arxiv_id |-> "a", title |-> "T", summary |-> <<"S1", "S2">>]
WithoutAbstract == [arxiv_id |-> "b", title |-> "T", summary |-> <<>>]
GuardedBatches ==
    {[i \in 1..n |-> WithAbstract] : n \in {0, 1, MaxBatch - 1, MaxBatch}}
      \cup {[i \in 1..n |-> IF i = 2 THEN WithoutAbstract ELSE WithAbstract] :
               n \in {3, MaxBatch}}
\* what the provider does to the calls of one operation: the calls made take
\* the two behaviours in turn
Scripts ==
    {[j \in 0..1 |-> r] : r \in Remotes}
      \cup {[j \in 0..1 |-> IF j = i THEN Ok ELSE Fails(k)] :
               i \in 0..1, k \in {"LLMAuthError", "Exception"}}

\* what an operation of the summarizer has done so far: the counter, the
\* circuit and the time; the guarded calls made (calls), those that reached
\* the transport (reached), those made by a paper that began with the counter
\* at its limit (late); the papers with an abstract met; whether the cooldown
\* had elapsed at some call (cooled), whether every attempt failed (allfail),
\* whether every summary is the rule-based one (rule)
GuardedAcc(f, k, c, t) ==
    [f |-> f, c |-> c, t |-> t, sinceOk |-> k, calls |-> 0, reached |-> 0,
     late |-> 0, abstracts |-> 0, cooled |-> FALSE, allfail |-> TRUE,
     rule |-> TRUE, results |-> EmptyMap]

\* one paper of an operation: it is summarize(paper) when batch is FALSE and
\* one iteration of the loop of summarize_batch when batch is TRUE
guarded_paper(acc, paper, i, total, delay, script, batch) ==
    LET remote2 == script[acc.calls % 2]
        remote3 == script[(acc.calls + 1) % 2]
        \* what the paper leaves behind, given its two calls and what
        \* summarize or the iteration made of them
        After(g2, g3, it) ==
            [f |-> it.failures,
             c |-> IF it.calls = 0 THEN acc.c ELSE g3.c,
             t |-> (IF it.calls = 0 THEN acc.t ELSE g3.t)
                     + (IF it.slept THEN delay ELSE 0),
             sinceOk |-> SinceOkAfter(acc.sinceOk, it.s2, it.s3),
             calls |-> acc.calls + it.calls,
             reached |-> acc.reached
                           + (IF it.calls >= 1 /\ g2.reached THEN 1 ELSE 0)
                           + (IF it.calls = 2 /\ g3.reached THEN 1 ELSE 0),
             late |-> acc.late
                        + (IF acc.f >= llm_failure_limit THEN it.calls ELSE 0),
             abstracts |-> acc.abstracts
                             + (IF paper.summary # <<>> THEN 1 ELSE 0),
             cooled |-> \/ acc.cooled
                        \/ it.calls >= 1 /\ Cooled(acc.c, acc.t)
                        \/ it.calls = 2 /\ Cooled(g2.c, g2.t),
             allfail |-> /\ acc.allfail
                         /\ (it.calls >= 1 /\ g2.reached) => AllFail(remote2)
                         /\ (it.calls = 2 /\ g3.reached) => AllFail(remote3),
             rule |-> acc.rule /\ it.summary = rule_based_summary(paper),
             results |-> (it.id :> it.summary) @@ acc.results]
        Single(r) ==
            [id |-> PaperId(paper, i), summary |-> r.summary,
             failures |-> r.failures, calls |-> r.calls,
             s2 |-> r.s2, s3 |-> r.s3, short |-> FALSE, slept |-> FALSE]
        Stages(g2, g3) ==
            After(g2, g3,
                  IF batch
                     THEN batch_iteration(acc.f, paper, i, total, delay,
                                          g2.o, g3.o)
                     ELSE Single(summarize(acc.f, paper, g2.o, g3.o)))
        Stage2(g2) == Stages(g2, guarded_stage3(acc.f, paper, g2, remote3))
    IN Stage2(guarded_stage2(acc.f, paper, acc.c, acc.t, remote2))

\* the loop of summarize_batch from paper i on, run to its end
RECURSIVE guarded_batch(_, _, _, _, _)
guarded_batch(acc, papers, i, delay, script) ==
    IF i > Len(papers) THEN acc
    ELSE guarded_batch(guarded_paper(acc, papers[i], i, Len(papers), delay,
                                     script, TRUE),
                       papers, i + 1, delay, script)

\* the record of no operation
GLast(op) ==
    [op |-> op, fresh |-> FALSE, afterReset |-> FALSE, before |-> 0,
     calls |-> 0, reached |-> 0, late |-> 0, abstracts |-> 0,
     cooled |-> FALSE, allfail |-> TRUE, rule |-> TRUE]

Init ==
    /\ ppc = "idle"
    /\ psettings = [top_n |-> 1, research_interests |-> FALSE]
    /\ pdicts = PipeDicts
    /\ ppapers = <<>>
    /\ relevant = <<>>
    /\ top_papers = <<>>
    /\ summaries = {}
    /\ pruns = 0
    /\ pfilter = NewCircuit
    /\ pstart = NewCircuit
    /\ pdb0 = EmptyDb
    /\ epapers = <<>>
    /\ elast = [op |-> "init", found |-> <<>>]
    /\ glast = GLast("init")
    /\ gops = 0
    /\ db = EmptyDb
    /\ dlast = [op |-> "init", arxiv_id |-> 0, returned |-> FALSE]
    /\ xpc = "idle"
    /\ xabstract = <<>>
    /\ xmax_sentences = default_max_sentences
    /\ xresult = <<>>
    /\ qpipeline = Pipeline(DefaultScorers(1), FALSE)
    /\ qpapers = <<>>
    /\ qnow = Today
    /\ qlast = QLast("init")
    /\ llm_failures = 0
    /\ spc = "idle"
    /\ bpapers = <<>>
    /\ bdelay = 0
    /\ bi = 0
    /\ results = EmptyMap
    /\ slast = SLast("init")
    /\ sinceOk = 0
    /\ ballFail = TRUE
    /\ circuit = NewCircuit
    /\ now = 0
    /\ pc = "idle"
    /\ attempt = 0
    /\ last_err = NoErr
    /\ ev = Ev("init", "CLOSED", "None")
    /\ consec = 0
    /\ openedAt = -1
    /\ hoInv = 0

\* the clock advances (between operations, or while fn() is running)
Tick ==
    \E d \in TickSteps :
        /\ now + d <= MaxTime
        /\ now' = now + d
        /\ ev' = IF pc = "idle" THEN Ev("tick", circuit.state, "None") ELSE ev
        /\ UNCHANGED <<circuit, pc, attempt, last_err, consec, openedAt, hoInv>>
        /\ UNCHANGED <<svars, qvars, xvars, dvars, gvars, evars, pvars>>

\* a caller reads circuit.state (LLMClient.circuit_state)
StateQuery ==
    /\ pc = "idle"
    /\ circuit' = state(circuit, now)
    /\ ev' = Ev("state", circuit.state, circuit'.state)
    /\ openedAt' = OpenedAtAfter(circuit, circuit', now)
    /\ hoInv' = HoInvAfter(circuit', hoInv)
    /\ consec' = consec
    /\ UNCHANGED <<now, pc, attempt, last_err>>
    /\ UNCHANGED <<svars, qvars, xvars, dvars, gvars, evars, pvars>>

\* a caller asks circuit.allow_request() (LLMClient.available)
AllowRequest ==
    /\ pc = "idle"
    /\ circuit' = state(circuit, now)
    /\ ev' = Ev("allow_request", circuit.state, BoolStr(allow_request(circuit, now)))
    /\ openedAt' = OpenedAtAfter(circuit, circuit', now)
    /\ hoInv' = HoInvAfter(circuit', hoInv)
    /\ consec' = consec
    /\ UNCHANGED <<now, pc, attempt, last_err>>
    /\ UNCHANGED <<svars, qvars, xvars, dvars, gvars, evars, pvars>>

RecordSuccess ==
    /\ pc = "idle"
    /\ circuit' = record_success(circuit)
    /\ ev' = Ev("record_success", circuit.state, "None")
    /\ openedAt' = OpenedAtAfter(circuit, circuit', now)
    /\ hoInv' = HoInvAfter(circuit', hoInv)
    /\ consec' = 0
    /\ UNCHANGED <<now, pc, attempt, last_err>>
    /\ UNCHANGED <<svars, qvars, xvars, dvars, gvars, evars, pvars>>

RecordFailure ==
    /\ pc = "idle"
    /\ circuit.failures < MaxFailures
    /\ circuit' = record_failure(circuit, now)
    /\ ev' = [Ev("record_failure", circuit.state, "None") EXCEPT !.rec = 1]
    /\ openedAt' = OpenedAtAfter(circuit, circuit', now)
    /\ hoInv' = HoInvAfter(circuit', hoInv)
    /\ consec' = consec + 1
    /\ UNCHANGED <<now, pc, attempt, last_err>>
    /\ UNCHANGED <<svars, qvars, xvars, dvars, gvars, evars, pvars>>

Reset ==
    /\ pc = "idle"
    /\ circuit' = reset(circuit)
    /\ ev' = Ev("reset", circuit.state, "None")
    /\ openedAt' = OpenedAtAfter(circuit, circuit', now)
    /\ hoInv' = HoInvAfter(circuit', hoInv)
    /\ consec' = 0
    /\ UNCHANGED <<now, pc, attempt, last_err>>
    /\ UNCHANGED <<svars, qvars, xvars, dvars, gvars, evars, pvars>>

ResetCircuit ==
    /\ pc = "idle"
    /\ circuit' = reset_circuit(circuit)
    /\ ev' = Ev("reset_circuit", circuit.state, "None")
    /\ openedAt' = OpenedAtAfter(circuit, circuit', now)
    /\ hoInv' = HoInvAfter(circuit', hoInv)
    /\ consec' = 0
    /\ UNCHANGED <<now, pc, attempt, last_err>>
    /\ UNCHANGED <<svars, qvars, xvars, dvars, gvars, evars, pvars>>

\* call_with_retry is entered: the circuit check, then either the raise of
\* LLMCircuitOpenError or the start of the for loop
CallBegin ==
    /\ pc = "idle"
    /\ LET chk == call_precheck(circuit, now) IN
       /\ circuit' = chk.c
       /\ openedAt' = OpenedAtAfter(circuit, chk.c, now)
       /\ hoInv' = HoInvAfter(chk.c, hoInv)
       /\ IF chk.rejected
             THEN /\ ev' = [Ev("call_with_retry", circuit.state, "raise")
                              EXCEPT !.err = [kind |-> "LLMCircuitOpenError", at |-> -1]]
                  /\ pc' = "idle"
             ELSE /\ ev' = Ev("call_with_retry", circuit.state, "None")
                  /\ pc' = "loop"
    /\ attempt' = 0
    /\ last_err' = NoErr
    /\ UNCHANGED <<now, consec>>
    /\ UNCHANGED <<svars, qvars, xvars, dvars, gvars, evars, pvars>>

\* one iteration of the for loop: fn() is invoked and returns or raises o,
\* and the matching branch runs up to the next invocation or the end of the call
Attempt(o) ==
    /\ pc = "loop"
    /\ LET e    == [kind |-> o.v, at |-> attempt]
           rec  == ~o.ok /\ records_failure(o.v, attempt)
           more == ~o.ok /\ retries_after(o.v, attempt)
           c1   == IF o.ok THEN record_success(circuit)
                   ELSE IF rec THEN record_failure(circuit, now)
                   ELSE circuit
           w    == IF more THEN wait(o.v, attempt) ELSE 0
           inHO == IF circuit.state = "HALF_OPEN" THEN 1 ELSE 0
       IN
       /\ rec => circuit.failures < MaxFailures
       /\ now + w <= MaxTime
       /\ circuit' = c1
       /\ openedAt' = OpenedAtAfter(circuit, c1, now)
       /\ hoInv' = HoInvAfter(c1, hoInv + inHO)
       /\ now' = now + w
       /\ consec' = IF o.ok THEN 0 ELSE IF rec THEN consec + 1 ELSE consec
       /\ last_err' = IF o.ok THEN last_err ELSE last_err_after(o.v, e, last_err)
       /\ attempt' = IF more THEN attempt + 1 ELSE attempt
       /\ pc' = IF more THEN "loop" ELSE "idle"
       /\ ev' = [ev EXCEPT
                   !.inv = @ + 1,
                   !.rec = @ + (IF rec THEN 1 ELSE 0),
                   !.sleeps = @ + (IF more THEN 1 ELSE 0),
                   !.lastSlept = more,
                   !.ret = IF o.ok THEN "return" ELSE IF more THEN "None" ELSE "raise",
                   !.val = IF o.ok THEN o.v ELSE "None",
                   !.lastKind = IF o.ok THEN "ok" ELSE o.v,
                   !.suggested = o.retry_after,
                   !.err = IF o.ok \/ more THEN NoErr
                           ELSE IF o.v \in NonRetryable THEN e
                           ELSE last_err_after(o.v, e, last_err)]
    /\ UNCHANGED <<svars, qvars, xvars, dvars, gvars, evars, pvars>>

CallStep == \E o \in Outcomes : Attempt(o)

Next ==
    \/ Tick
    \/ StateQuery
    \/ AllowRequest
    \/ RecordSuccess
    \/ RecordFailure
    \/ Reset
    \/ ResetCircuit
    \/ CallBegin
    \/ CallStep

Spec == Init /\ [][Next]_vars

(* ---- PaperSummarizer: operations -------------------------------------- *)
\* summarizer.summarize(paper) called on its own
SummarizeCall ==
    /\ spc = "idle"
    /\ \E paper \in Papers :
       \E o2 \in Stage2Outcomes(llm_failures, paper) :
       \E o3 \in Stage3Outcomes(llm_failures, paper, o2) :
       \E r \in {summarize(llm_failures, paper, o2, o3)} :
          /\ llm_failures' = r.failures
          /\ slast' = [SLast("summarize") EXCEPT
                          !.paper = paper, !.summary = r.summary,
                          !.before = llm_failures, !.calls = r.calls,
                          !.s2 = r.s2, !.s3 = r.s3,
                          !.text3 = IF r.s3 = "ok" THEN o3.text ELSE <<>>]
          /\ sinceOk' = SinceOkAfter(sinceOk, r.s2, r.s3)
    /\ UNCHANGED <<spc, bpapers, bdelay, bi, results, ballFail>>
    /\ UNCHANGED <<cvars, qvars, xvars, dvars, gvars, evars, pvars>>

\* summarizer.summarize_batch(papers, delay) is entered (lines 160-161)
BatchBegin ==
    /\ spc = "idle"
    /\ \E papers \in BatchInputs, delay \in Delays :
          /\ bpapers' = papers
          /\ bdelay' = delay
    /\ spc' = "batch"
    /\ bi' = 0
    /\ results' = EmptyMap
    /\ slast' = SLast("begin")
    /\ ballFail' = TRUE
    /\ UNCHANGED <<llm_failures, sinceOk>>
    /\ UNCHANGED <<cvars, qvars, xvars, dvars, gvars, evars, pvars>>

\* one iteration of the loop of summarize_batch (lines 163-185)
BatchStep ==
    /\ spc = "batch"
    /\ bi < Len(bpapers)
    /\ \E o2 \in Stage2Outcomes(llm_failures, bpapers[bi + 1]) :
       \E o3 \in Stage3Outcomes(llm_failures, bpapers[bi + 1], o2) :
       \E it \in {batch_iteration(llm_failures, bpapers[bi + 1], bi + 1,
                                  Len(bpapers), bdelay, o2, o3)} :
          /\ results' = (it.id :> it.summary) @@ results
          /\ llm_failures' = it.failures
          /\ bi' = bi + 1
          /\ slast' = [op |-> "batch", paper |-> bpapers[bi + 1], i |-> bi + 1,
                       id |-> it.id, summary |-> it.summary,
                       before |-> llm_failures, calls |-> it.calls,
                       s2 |-> it.s2, s3 |-> it.s3,
                       text3 |-> IF it.s3 = "ok" THEN o3.text ELSE <<>>,
                       short |-> it.short, slept |-> it.slept]
          /\ sinceOk' = SinceOkAfter(sinceOk, it.s2, it.s3)
          /\ ballFail' = (ballFail /\ it.s2 # "ok" /\ it.s3 # "ok")
    /\ UNCHANGED <<spc, bpapers, bdelay>>
    /\ UNCHANGED <<cvars, qvars, xvars, dvars, gvars, evars, pvars>>

\* the loop is over: return results (line 187); the locals of the call go
BatchReturn ==
    /\ spc = "batch"
    /\ bi = Len(bpapers)
    /\ spc' = "idle"
    /\ bpapers' = <<>>
    /\ bdelay' = 0
    /\ bi' = 0
    /\ results' = EmptyMap
    /\ slast' = SLast("return")
    /\ ballFail' = TRUE
    /\ UNCHANGED <<llm_failures, sinceOk>>
    /\ UNCHANGED <<cvars, qvars, xvars, dvars, gvars, evars, pvars>>

SumNext ==
    \/ SummarizeCall
    \/ BatchBegin
    \/ BatchStep
    \/ BatchReturn

SumSpec == Init /\ [][SumNext]_vars

(* ---- ScoringPipeline: operations --------------------------------------- *)
\* ScoringPipeline(scorers) is built, as PaperAggregator.__init__ does before
\* there is any paper
MakePipeline ==
    /\ qpapers = <<>>
    /\ \E scorers \in ScorerLists, up \in BOOLEAN :
          qpipeline' = Pipeline(scorers, up)
    /\ qlast' = QLast("make")
    /\ UNCHANGED <<qpapers, qnow>>
    /\ UNCHANGED <<cvars, svars, xvars, dvars, gvars, evars, pvars>>

\* in place of a pipeline built from one of ScorerLists, a pipeline with the
\* same scorers and every weight multiplied by k is built
ScalePipeline ==
    /\ qpipeline.scorers \in ScorerLists
    /\ qpipeline.scorers # <<>>
    /\ \E k \in ScaleFactors, up \in BOOLEAN :
          qpipeline' = Pipeline(Scaled(qpipeline.scorers, k), up)
    /\ qlast' = [qlast EXCEPT !.scaled = TRUE]
    /\ UNCHANGED <<qpapers, qnow>>
    /\ UNCHANGED <<cvars, svars, xvars, dvars, gvars, evars, pvars>>

\* the caller gets a list of papers
LoadPapers ==
    /\ qpapers = <<>>
    /\ \E papers \in ScoringInputs : qpapers' = papers
    /\ qlast' = QLast("load")
    /\ UNCHANGED <<qpipeline, qnow>>
    /\ UNCHANGED <<cvars, svars, xvars, dvars, gvars, evars, pvars>>

\* the caller lets go of its list
DropPapers ==
    /\ qpapers # <<>>
    /\ qpapers' = <<>>
    /\ qlast' = QLast("drop")
    /\ UNCHANGED <<qpipeline, qnow>>
    /\ UNCHANGED <<cvars, svars, xvars, dvars, gvars, evars, pvars>>

\* a day goes by
NextDay ==
    /\ qnow < MaxDay
    /\ qnow' = qnow + 1
    /\ qlast' = QLast("day")
    /\ UNCHANGED <<qpipeline, qpapers>>
    /\ UNCHANGED <<cvars, svars, xvars, dvars, gvars, evars, pvars>>

\* pipeline.score_paper(papers[k])
ScorePaper ==
    /\ \E k \in 1..Len(qpapers) :
       \E r \in {score_paper(qpipeline, qpapers[k], qnow)} :
          /\ qpapers' = [qpapers EXCEPT ![k] = r.paper]
          /\ qlast' = [op |-> "score_paper", k |-> k, raised |-> r.raised,
                       score |-> r.score, signals |-> r.signals,
                       scaled |-> FALSE]
    /\ UNCHANGED <<qpipeline, qnow>>
    /\ UNCHANGED <<cvars, svars, xvars, dvars, gvars, evars, pvars>>

\* pipeline.rank_papers(papers)
RankPapers ==
    /\ \E r \in {rank_papers(qpipeline, qpapers, qnow)} :
          /\ qpapers' = r.papers
          /\ qlast' = [op |-> "rank_papers", k |-> 0, raised |-> r.raised,
                       score |-> 0, signals |-> <<>>, scaled |-> FALSE]
    /\ UNCHANGED <<qpipeline, qnow>>
    /\ UNCHANGED <<cvars, svars, xvars, dvars, gvars, evars, pvars>>

ScoreNext ==
    \/ MakePipeline
    \/ ScalePipeline
    \/ LoadPapers
    \/ DropPapers
    \/ NextDay
    \/ ScorePaper
    \/ RankPapers

ScoreSpec == Init /\ [][ScoreNext]_vars

(* ---- extract_key_sentences: operations --------------------------------- *)
\* extract_key_sentences(abstract, max_sentences)
ExtractCall ==
    /\ xpc = "idle"
    /\ \E abstract \in Abstracts, max_sentences \in MaxSentenceArgs :
          /\ xabstract' = abstract
          /\ xmax_sentences' = max_sentences
          /\ xresult' = extract_key_sentences(abstract, max_sentences)
    /\ xpc' = "done"
    /\ UNCHANGED <<cvars, svars, qvars, dvars, gvars, evars, pvars>>

\* the caller is done with the result
ExtractReturn ==
    /\ xpc = "done"
    /\ xpc' = "idle"
    /\ xabstract' = <<>>
    /\ xmax_sentences' = default_max_sentences
    /\ xresult' = <<>>
    /\ UNCHANGED <<cvars, svars, qvars, dvars, gvars, evars, pvars>>

ExtractNext ==
    \/ ExtractCall
    \/ ExtractReturn

ExtractSpec == Init /\ [][ExtractNext]_vars

(* ---- ArxivDatabase: operations ------------------------------------------ *)
\* db.insert_paper(paper)
InsertPaper ==
    /\ \E paper \in DbPapers :
       \E r \in {insert_paper(db, paper)} :
          /\ db' = r.db
          /\ dlast' = [op |-> "insert_paper", arxiv_id |-> paper.arxiv_id,
                       returned |-> r.returned]
    /\ UNCHANGED <<cvars, svars, qvars, xvars, gvars, evars, pvars>>

DbNext == InsertPaper

DbSpec == Init /\ [][DbNext]_vars

(* ---- PaperSummarizer over LLMClient: operations ------------------------- *)
\* the operations below leave the position of a call of call_with_retry,
\* the locals of summarize_batch and the other components as they are
GuardedFrame ==
    /\ UNCHANGED <<pc, attempt, last_err, ev, consec, openedAt, hoInv>>
    /\ UNCHANGED <<spc, bpapers, bdelay, bi, results, slast, ballFail>>
    /\ UNCHANGED <<qvars, xvars, dvars, evars, pvars>>

\* a cooldown goes by between two operations
GuardedTick ==
    /\ now + cooldown <= MaxTime
    /\ now' = now + cooldown
    /\ UNCHANGED <<circuit, llm_failures, sinceOk, glast, gops>>
    /\ GuardedFrame

\* self.llm.reset_circuit() (run_pipeline, line 112)
GuardedReset ==
    /\ circuit' = reset_circuit(circuit)
    /\ glast' = GLast("reset")
    /\ UNCHANGED <<now, llm_failures, sinceOk, gops>>
    /\ GuardedFrame

\* the record of an operation that began in the present state and ended as r
GuardedDone(op, r) ==
    [op |-> op,
     fresh |-> (llm_failures = 0 /\ circuit = reset_circuit(circuit)),
     afterReset |-> glast.op = "reset",
     before |-> llm_failures,
     calls |-> r.calls, reached |-> r.reached, late |-> r.late,
     abstracts |-> r.abstracts, cooled |-> r.cooled, allfail |-> r.allfail,
     rule |-> r.rule]

\* summarizer.summarize(paper), its chats being calls of generate
GuardedSummarize ==
    /\ gops < MaxOps
    /\ gops' = gops + 1
    /\ \E paper \in {WithAbstract, WithoutAbstract}, script \in Scripts :
       \E r \in {guarded_paper(GuardedAcc(llm_failures, sinceOk, circuit, now), paper,
                               1, 1, 0, script, FALSE)} :
          /\ r.t <= MaxTime
          /\ r.c.failures <= MaxFailures
          /\ circuit' = r.c
          /\ now' = r.t
          /\ llm_failures' = r.f
          /\ sinceOk' = r.sinceOk
          /\ glast' = GuardedDone("summarize", r)
    /\ GuardedFrame

\* summarizer.summarize_batch(papers, delay), its chats being calls of
\* generate: the whole loop
GuardedBatch ==
    /\ gops < MaxOps
    /\ gops' = gops + 1
    /\ \E papers \in GuardedBatches, delay \in Delays, script \in Scripts :
       \E r \in {guarded_batch(GuardedAcc(llm_failures, sinceOk, circuit, now), papers,
                               1, delay, script)} :
          /\ r.t <= MaxTime
          /\ r.c.failures <= MaxFailures
          /\ circuit' = r.c
          /\ now' = r.t
          /\ llm_failures' = r.f
          /\ sinceOk' = r.sinceOk
          /\ glast' = GuardedDone("batch", r)
    /\ GuardedFrame

GuardedNext ==
    \/ GuardedTick
    \/ GuardedReset
    \/ GuardedSummarize
    \/ GuardedBatch

GuardedSpec == Init /\ [][GuardedNext]_vars

(* ---- enrichment: operations --------------------------------------------- *)
\* the caller gets a list of papers (fetch and filter of run_pipeline)
EnrichLoad ==
    /\ \E papers \in EnrichLists :
          /\ epapers' = papers
          /\ elast' = [op |-> "load", found |-> [k \in 1..Len(papers) |-> FALSE]]
    /\ UNCHANGED <<cvars, svars, qvars, xvars, dvars, gvars, pvars>>

\* s2.enrich_papers(papers)
S2Enrich ==
    /\ epapers # <<>>
    /\ \E s2 \in [EnrichIds -> S2Responses] :
          /\ epapers' = s2_enrich_papers(epapers, s2)
          /\ elast' = [op |-> "s2",
                       found |-> [k \in 1..Len(epapers) |->
                                     s2_data(s2, epapers[k]).found]]
    /\ UNCHANGED <<cvars, svars, qvars, xvars, dvars, gvars, pvars>>

\* cr.enrich_papers(papers)
CrEnrich ==
    /\ epapers # <<>>
    /\ \E cr \in [1..Len(epapers) -> CrResponses] :
          /\ epapers' = cr_enrich_papers(epapers, cr)
          /\ elast' = [op |-> "cr",
                       found |-> [k \in 1..Len(epapers) |-> ~CrNothing(cr[k])]]
    /\ UNCHANGED <<cvars, svars, qvars, xvars, dvars, gvars, pvars>>

EnrichNext ==
    \/ EnrichLoad
    \/ S2Enrich
    \/ CrEnrich

EnrichSpec == Init /\ [][EnrichNext]_vars

(* ---- PaperAggregator.run_pipeline: operations --------------------------- *)
\* what no step of run_pipeline touches
PipeFrame ==
    /\ UNCHANGED <<pc, attempt, last_err, ev, consec, openedAt, hoInv>>
    /\ UNCHANGED <<spc, bpapers, bdelay, bi, results, slast, ballFail>>
    /\ UNCHANGED <<qvars, xvars, dlast, gvars, evars>>

\* Step 1: papers = self.arxiv.fetch_recent_papers(...); an empty list ends
\* the run
PipeFetch ==
    /\ ppc \in {"idle", "returned", "raised"}
    /\ pruns < MaxRuns
    /\ pruns' = pruns + 1
    /\ \E refs \in PipeLists, s \in PipeSettings :
          /\ psettings' = s
          /\ ppapers' = refs
          /\ ppc' = IF refs = <<>> THEN "returned" ELSE "filter"
    /\ pdicts' = PipeDicts
    /\ relevant' = <<>>
    /\ top_papers' = <<>>
    /\ summaries' = {}
    /\ pfilter' = NewCircuit
    /\ pstart' = NewCircuit
    /\ pdb0' = db
    /\ UNCHANGED <<circuit, now, llm_failures, sinceOk, db>>
    /\ PipeFrame

\* Step 2: relevant = self._filter_relevant(...) or self._keyword_prefilter(...)
PipeFilter ==
    /\ ppc = "filter"
    /\ IF psettings.research_interests
          THEN \E remote \in FilterRemotes, lines \in FilterResponses :
               \E g \in {generate(circuit, now, remote)} :
                  /\ g.t <= MaxTime
                  /\ g.c.failures <= MaxFailures
                  /\ circuit' = g.c
                  /\ now' = g.t
                  /\ relevant' = filter_relevant(pdicts, ppapers, g, lines)
          ELSE /\ relevant' = keyword_prefilter(pdicts, ppapers)
               /\ UNCHANGED <<circuit, now>>
    /\ pfilter' = circuit'
    /\ ppc' = "s2"
    /\ UNCHANGED <<psettings, pdicts, ppapers, top_papers, summaries, pruns,
                   pstart, pdb0, llm_failures, sinceOk, db>>
    /\ PipeFrame

\* Step 3: self.s2.enrich_papers(relevant)
PipeS2 ==
    /\ ppc = "s2"
    /\ \E s2 \in S2Maps :
          pdicts' = WriteBack(pdicts,
                       s2_enrich_papers(Materialize(pdicts, relevant), s2))
    /\ ppc' = "rank"
    /\ UNCHANGED <<psettings, ppapers, relevant, top_papers, summaries, pruns,
                   pfilter, pstart, pdb0, circuit, now, llm_failures, sinceOk, db>>
    /\ PipeFrame

\* Step 4: self.scorer.rank_papers(relevant); top_papers = relevant[:s.top_n]
PipeRank ==
    /\ ppc = "rank"
    /\ \E r \in {rank_papers(PipeScorer, Materialize(pdicts, relevant), qnow)} :
          /\ pdicts' = WriteBack(pdicts, r.papers)
          /\ relevant' = Refs(r.papers)
          /\ top_papers' = IF r.raised THEN <<>>
                           ELSE Take(Refs(r.papers), psettings.top_n)
          /\ ppc' = IF r.raised THEN "raised" ELSE "crossref"
    /\ UNCHANGED <<psettings, ppapers, summaries, pruns, pfilter, pstart, pdb0,
                   circuit, now, llm_failures, sinceOk, db>>
    /\ PipeFrame

\* self.cr.enrich_papers(top_papers)
PipeCrossref ==
    /\ ppc = "crossref"
    /\ \E cr \in [1..Len(top_papers) -> PipeCrResponses] :
          pdicts' = WriteBack(pdicts,
                       cr_enrich_papers(Materialize(pdicts, top_papers), cr))
    /\ ppc' = "rerank"
    /\ UNCHANGED <<psettings, ppapers, relevant, top_papers, summaries, pruns,
                   pfilter, pstart, pdb0, circuit, now, llm_failures, sinceOk, db>>
    /\ PipeFrame

\* self.scorer.rank_papers(top_papers)
\* faulty variant: the scores are not computed again after Crossref
PipeRerank_mut_skip ==
    /\ ppc = "rerank"
    /\ ppc' = "reset"
    /\ UNCHANGED <<psettings, pdicts, ppapers, relevant, top_papers, summaries,
                   pruns, pfilter, pstart, pdb0, circuit, now, llm_failures,
                   sinceOk, db>>
    /\ PipeFrame
PipeRerank ==
    /\ ppc = "rerank"
    /\ \E r \in {rank_papers(PipeScorer, Materialize(pdicts, top_papers), qnow)} :
          /\ pdicts' = WriteBack(pdicts, r.papers)
          /\ top_papers' = Refs(r.papers)
          /\ ppc' = IF r.raised THEN "raised" ELSE "reset"
    /\ UNCHANGED <<psettings, ppapers, relevant, summaries, pruns, pfilter,
                   pstart, pdb0, circuit, now, llm_failures, sinceOk, db>>
    /\ PipeFrame

\* Step 5: self.llm.reset_circuit()
PipeReset ==
    /\ ppc = "reset"
    /\ circuit' = IF top_papers # <<>> THEN reset_circuit(circuit) ELSE circuit
    /\ ppc' = IF top_papers # <<>> THEN "summarize" ELSE "persist"
    /\ UNCHANGED <<psettings, pdicts, ppapers, relevant, top_papers, summaries,
                   pruns, pfilter, pstart, pdb0, now, llm_failures, sinceOk, db>>
    /\ PipeFrame

\* summaries = self.summarizer.summarize_batch(top_papers, delay=0.5), and
\* the fallback when it is empty
PipeSummarize ==
    /\ ppc = "summarize"
    /\ \E script \in PipeScripts :
       \E r \in {guarded_batch(GuardedAcc(llm_failures, sinceOk, circuit, now),
                               [k \in 1..Len(top_papers) |->
                                   SumView(pdicts[top_papers[k]])],
                               1, 1, script)} :
          /\ r.t <= MaxTime
          /\ r.c.failures <= MaxFailures
          /\ circuit' = r.c
          /\ now' = r.t
          /\ llm_failures' = r.f
          /\ sinceOk' = r.sinceOk
          /\ summaries' = IF DOMAIN r.results # {} THEN DOMAIN r.results
                          ELSE fallback_summaries(Materialize(pdicts, top_papers))
    /\ pstart' = circuit
    /\ ppc' = "persist"
    /\ UNCHANGED <<psettings, pdicts, ppapers, relevant, top_papers, pruns,
                   pfilter, pdb0, db>>
    /\ PipeFrame

\* Step 6: new_count = sum(1 for p in papers if self.db.insert_paper(p));
\* return {"papers": papers, "relevant": top_papers, "summaries": summaries}
PipePersist ==
    /\ ppc = "persist"
    /\ db' = insert_all(db, pdicts, ppapers, 1)
    /\ ppc' = "returned"
    /\ UNCHANGED <<psettings, pdicts, ppapers, relevant, top_papers, summaries,
                   pruns, pfilter, pstart, pdb0, circuit, now, llm_failures,
                   sinceOk>>
    /\ PipeFrame

PipeNext ==
    \/ PipeFetch
    \/ PipeFilter
    \/ PipeS2
    \/ PipeRank
    \/ PipeCrossref
    \/ PipeRerank
    \/ PipeReset
    \/ PipeSummarize
    \/ PipePersist

PipeSpec == Init /\ [][PipeNext]_vars

(* ---- steps, as seen from a pair of states ------------------------------ *)
\* an operation that reads the circuit state: the state property,
\* allow_request, or the circuit check of call_with_retry
QueryStep == pc = "idle" /\ ev'.op \in {"state", "allow_request", "call_with_retry"}
\* a query that reports the circuit as not accepting requests
QueryRefused ==
    /\ circuit'.state = "OPEN"
    /\ ev'.op = "state" => ev'.ret = "OPEN"
    /\ ev'.op = "allow_request" => ev'.ret = "False"
    /\ ev'.op = "call_with_retry" => ev'.ret = "raise" /\ ev'.err.kind = "LLMCircuitOpenError"
\* a record_failure() call, direct or made by an attempt of call_with_retry
FailStep ==
    \/ pc = "idle" /\ ev'.op = "record_failure"
    \/ pc = "loop" /\ ev'.rec = ev.rec + 1
\* a record_success() call, direct or made by an attempt of call_with_retry
SuccessStep ==
    \/ pc = "idle" /\ ev'.op = "record_success"
    \/ pc = "loop" /\ ev'.inv = ev.inv + 1 /\ ev'.lastKind = "ok"
\* one iteration of the for loop of call_with_retry
AttemptStep == pc = "loop" /\ ev'.inv = ev.inv + 1
\* a call of call_with_retry has ended
CallEnded == pc = "idle" /\ ev.op = "call_with_retry"

(* ---- C1 --------------------------------------------------------------- *)
\* C1: counting the record_failure() calls since the circuit was last Closed
\* with counter 0: with fewer than failure_threshold of them the circuit is
\* still CLOSED and allow_request() is true; with failure_threshold of them
\* (and the cooldown not yet over) it is OPEN and allow_request() is false.
C1_ThresholdOpens ==
    /\ consec < failure_threshold =>
          circuit.state = "CLOSED" /\ allow_request(circuit, now)
    /\ (consec >= failure_threshold /\ now - circuit.last_failure_time < cooldown) =>
          circuit.state = "OPEN" /\ ~allow_request(circuit, now)
C1_Witness ==
    /\ ev.op = "record_failure"
    /\ ev.from = "CLOSED"
    /\ consec = failure_threshold
    /\ circuit.state = "OPEN"

(* ---- C2 --------------------------------------------------------------- *)
\* the three parts of C2 for a cooldown measured from time ref
C2_Step(ref) ==
    /\ (QueryStep /\ circuit.state = "OPEN" /\ now - ref < cooldown) => QueryRefused
    /\ (QueryStep /\ circuit.state = "OPEN" /\ now - ref >= cooldown) =>
          circuit'.state = "HALF_OPEN"
    /\ (circuit.state = "OPEN" /\ circuit'.state = "HALF_OPEN") => QueryStep
\* C2 as stated: the cooldown of an OPEN circuit runs from the change of state
\* into OPEN; a query earlier than cooldown after it is refused, a query at
\* least cooldown after it observes HALF_OPEN, and only a query moves OPEN to
\* HALF_OPEN.
C2_Original == [][C2_Step(openedAt)]_vars
\* C2 amended: the cooldown of an OPEN circuit runs from the most recent
\* record_failure() (the one that opened it, or a later one made while it was
\* OPEN); a query earlier than cooldown after it is refused, a query at least
\* cooldown after it observes HALF_OPEN, and only a query moves OPEN to
\* HALF_OPEN.
C2_CooldownFromLastFailure == [][C2_Step(circuit.last_failure_time)]_vars
C2_Witness ==
    /\ ev.op \in {"state", "allow_request"}
    /\ ev.from = "OPEN"
    /\ circuit.state = "HALF_OPEN"
    /\ now - circuit.last_failure_time = cooldown

(* ---- C3 --------------------------------------------------------------- *)
\* C3: while the circuit stays HALF_OPEN at most one invocation of fn() is
\* made.
C3_OneProbe == hoInv <= 1

(* ---- C4 --------------------------------------------------------------- *)
\* C4: a record_failure() made while HALF_OPEN puts the circuit in OPEN with
\* last_failure_time set to the time of that failure, and an OPEN circuit
\* refuses requests until cooldown has elapsed since it opened.
C4_Step ==
    /\ (FailStep /\ circuit.state = "HALF_OPEN") =>
          /\ circuit'.state = "OPEN"
          /\ circuit'.last_failure_time = now
          /\ openedAt' = now
    /\ (circuit'.state = "OPEN" /\ now' - openedAt' < cooldown) =>
          ~allow_request(circuit', now')
C4_HalfOpenFailureReopens == [][C4_Step]_vars
C4_Witness ==
    /\ ev.op = "record_failure"
    /\ ev.from = "HALF_OPEN"
    /\ circuit.state = "OPEN"
    /\ circuit.last_failure_time = now

(* ---- C5 --------------------------------------------------------------- *)
\* C5: a record_success() made while HALF_OPEN puts the circuit in CLOSED with
\* counter 0, and the circuit is away from CLOSED exactly when at least
\* failure_threshold failures were recorded since the last success or reset.
C5_Step ==
    /\ (SuccessStep /\ circuit.state = "HALF_OPEN") =>
          /\ circuit'.state = "CLOSED"
          /\ circuit'.failures = 0
    /\ (circuit'.state # "CLOSED") <=> (consec' >= failure_threshold)
C5_HalfOpenSuccessCloses == [][C5_Step]_vars
C5_Witness ==
    /\ ev.op = "record_success"
    /\ ev.from = "HALF_OPEN"
    /\ circuit.state = "CLOSED"

(* ---- C6 --------------------------------------------------------------- *)
\* C6: after reset() (also through LLMClient.reset_circuit) the circuit is
\* CLOSED with counter 0 whatever it was before, and the allow_request() that
\* follows returns true.
C6_Step ==
    /\ (pc = "idle" /\ ev'.op \in {"reset", "reset_circuit"}) =>
          /\ circuit'.state = "CLOSED"
          /\ circuit'.failures = 0
          /\ allow_request(circuit', now')
    /\ (ev.op \in {"reset", "reset_circuit"} /\ ev'.op = "allow_request") =>
          ev'.ret = "True"
C6_ResetCloses == [][C6_Step]_vars
C6_Witness ==
    /\ ev.op = "reset"
    /\ ev.from = "OPEN"
    /\ now - circuit.last_failure_time < cooldown
    /\ circuit.state = "CLOSED"

(* ---- C7 --------------------------------------------------------------- *)
\* C7: call_with_retry entered while allow_request() is false raises
\* LLMCircuitOpenError with no invocation of fn() and no sleep, and leaves the
\* circuit (counter, timestamp, state) as it was.
C7_Step ==
    (pc = "idle" /\ ev'.op = "call_with_retry" /\ ~allow_request(circuit, now)) =>
        /\ ev'.ret = "raise"
        /\ ev'.err.kind = "LLMCircuitOpenError"
        /\ ev'.inv = 0
        /\ ev'.sleeps = 0
        /\ pc' = "idle"
        /\ now' = now
        /\ circuit' = circuit
C7_OpenCircuitFailsFast == [][C7_Step]_vars
C7_Witness ==
    /\ CallEnded
    /\ ev.ret = "raise"
    /\ ev.err.kind = "LLMCircuitOpenError"
    /\ circuit.state = "OPEN"

(* ---- C8 --------------------------------------------------------------- *)
\* C8: an attempt of call_with_retry that succeeds ends the call with that
\* value returned, no further invocation, and the circuit CLOSED with counter 0.
C8_Step ==
    (AttemptStep /\ ev'.lastKind = "ok") =>
        /\ pc' = "idle"
        /\ ev'.ret = "return"
        /\ ev'.val \in Values
        /\ ev'.inv = attempt + 1
        /\ circuit'.state = "CLOSED"
        /\ circuit'.failures = 0
C8_SuccessClosesCircuit == [][C8_Step]_vars
C8_Witness ==
    /\ CallEnded
    /\ ev.ret = "return"
    /\ ev.inv >= 2
    /\ ev.rec >= 1
    /\ circuit.state = "CLOSED"

(* ---- C9 --------------------------------------------------------------- *)
\* C9: an attempt that raises LLMAuthError or LLMBadRequestError ends the
\* call: no sleep, no further invocation, one record_failure(), and the error
\* raised by the call is that attempt's error.
C9_Step ==
    (AttemptStep /\ ev'.lastKind \in NonRetryable) =>
        /\ pc' = "idle"
        /\ ev'.ret = "raise"
        /\ ev'.err = [kind |-> ev'.lastKind, at |-> attempt]
        /\ ev'.inv = attempt + 1
        /\ ev'.sleeps = ev.sleeps
        /\ now' = now
        /\ ev'.rec = ev.rec + 1
        /\ circuit'.failures = circuit.failures + 1
        /\ attempt = 0 => ev'.inv = 1
C9_NonRetryableRaisesAtOnce == [][C9_Step]_vars
C9_Witness ==
    /\ CallEnded
    /\ ev.ret = "raise"
    /\ ev.err.kind \in NonRetryable
    /\ ev.err.at = 0
    /\ ev.inv = 1

(* ---- C10 -------------------------------------------------------------- *)
\* C10: an attempt that raises a retryable error is followed by a sleep and
\* another attempt while attempt < retries; at attempt = retries the call ends
\* without a sleep, after exactly retries + 1 invocations, raising the error of
\* that last attempt.
C10_Step ==
    /\ (AttemptStep /\ ev'.lastKind \in Retryable /\ attempt < retries) =>
          /\ pc' = "loop"
          /\ attempt' = attempt + 1
          /\ ev'.sleeps = ev.sleeps + 1
          /\ now' > now
    /\ (AttemptStep /\ ev'.lastKind \in Retryable /\ attempt >= retries) =>
          /\ pc' = "idle"
          /\ ev'.ret = "raise"
          /\ ev'.err = [kind |-> ev'.lastKind, at |-> retries]
          /\ ev'.inv = retries + 1
          /\ ev'.sleeps = retries
          /\ now' = now
    /\ pc' = "loop" => attempt' <= retries /\ ev'.inv = attempt'
    /\ (pc' = "idle" /\ ev'.op = "call_with_retry" /\ ev'.ret = "raise"
          /\ ev'.err.kind \in Retryable) =>
          /\ ev'.inv = retries + 1
          /\ ev'.err.at = retries
          /\ ~ev'.lastSlept
C10_ExhaustionRaisesLast == [][C10_Step]_vars
C10_Witness ==
    /\ CallEnded
    /\ ev.ret = "raise"
    /\ ev.err.kind \in Retryable
    /\ ev.inv = retries + 1
    /\ ev.err.at = retries

(* ---- C11 -------------------------------------------------------------- *)
\* C11: an attempt that raises a retryable error and is followed by a retry
\* records nothing on the circuit; the attempt that exhausts the retries
\* records one failure, the only one of the call.
C11_Step ==
    /\ (AttemptStep /\ ev'.lastKind \in Retryable /\ attempt < retries) =>
          /\ ev'.rec = ev.rec
          /\ circuit' = circuit
    /\ (AttemptStep /\ ev'.lastKind \in Retryable /\ attempt >= retries) =>
          /\ ev'.rec = 1
          /\ circuit'.failures = circuit.failures + 1
C11_OneFailurePerExhaustedCall == [][C11_Step]_vars

(* ---- PaperSummarizer: steps, as seen from a pair of states ------------- *)
\* a paper went through summarize, called on its own or by summarize_batch,
\* or through the branch of summarize_batch that does not call summarize
PaperStep ==
    \/ spc = "idle" /\ slast'.op = "summarize"
    \/ spc = "batch" /\ slast'.op = "batch" /\ bi' = bi + 1
\* one iteration of the loop of summarize_batch
BatchPaperStep == spc = "batch" /\ slast'.op = "batch" /\ bi' = bi + 1
\* the loop of summarize_batch is over and results is about to be returned
BatchDone == spc = "batch" /\ bi = Len(bpapers)

\* C12: a paper whose abstract is empty or missing gets the fixed "no
\* abstract" marker as its summary, from summarize and as its entry in the
\* results of summarize_batch, with no remote call made and the
\* consecutive-failure counter left as it was
C12_Step ==
    (PaperStep /\ slast'.paper.summary = <<>>) =>
        /\ slast'.summary = NoAbstract
        /\ slast'.calls = 0
        /\ llm_failures' = llm_failures
        /\ slast'.op = "batch" => results'[slast'.id] = NoAbstract
C12_EmptyAbstractMarker == [][C12_Step]_vars
\* an empty-abstract paper met by summarize_batch after the counter reached 6
C12_Witness ==
    /\ slast.op = "batch"
    /\ slast.paper.summary = <<>>
    /\ slast.short
    /\ results[slast.id] = NoAbstract
    /\ llm_failures = llm_failure_limit

\* C13: when the Stage 2 call or the Stage 3 call of a paper with a non-empty
\* abstract raises, the summary of the paper is the rule-based fallback bullet
\* computed from its abstract, and not the failure text of the stage
C13_Step ==
    (PaperStep /\ (slast'.s2 = "fail" \/ slast'.s3 = "fail")) =>
        /\ slast'.paper.summary # <<>>
        /\ slast'.summary = rule_based_summary(slast'.paper)
        /\ Head(slast'.summary) = "*"
        /\ ~Contains(slast'.summary, EF)
        /\ ~Contains(slast'.summary, CF)
        /\ slast'.op = "batch" => results'[slast'.id] = slast'.summary
C13_StageFailureFallsBack == [][C13_Step]_vars
\* Stage 2 succeeded, Stage 3 raised, and the long abstract was cut down
C13_Witness ==
    /\ slast.s2 = "ok"
    /\ slast.s3 = "fail"
    /\ slast.paper.summary = <<"S1", "S2", "Seg", "S4">>
    /\ slast.summary = <<"*", "[:247]", "S1", "Seg'", "S4", "...">>

\* C14: when the Stage 2 call and the Stage 3 call of a paper both return,
\* summarize returns the text of Stage 3 (white space at its ends aside)
\* whatever that text is, and the consecutive-failure counter is 0
C14_Step ==
    (PaperStep /\ slast'.s2 = "ok" /\ slast'.s3 = "ok") =>
        /\ slast'.summary = strip(slast'.text3)
        /\ llm_failures' = 0
C14_BothStagesOkReturnsStage3 == [][C14_Step]_vars

\* C15: in summarize_batch, a paper met when the consecutive-failure counter
\* is 6 or more causes no remote call, gets the rule-based fallback as its
\* entry and leaves the counter where it is, so the same holds for every
\* paper after it; a paper with a non-empty abstract met when the counter is
\* below 6 always has its Stage 2 call made
C15_Step ==
    /\ (BatchPaperStep /\ llm_failures >= 6) =>
          /\ slast'.calls = 0
          /\ slast'.s2 = "none" /\ slast'.s3 = "none"
          /\ slast'.summary = rule_based_summary(slast'.paper)
          /\ results'[slast'.id] = slast'.summary
          /\ llm_failures' = llm_failures
    /\ (BatchPaperStep /\ llm_failures < 6 /\ slast'.paper.summary # <<>>) =>
          /\ slast'.s2 # "none"
          /\ slast'.calls >= 1
C15_BatchStopsCallingAtSix == [][C15_Step]_vars
\* a later paper of a batch, with a non-empty abstract, met with the counter
\* at 6 and given the fallback without a call
C15_Witness ==
    /\ spc = "batch"
    /\ slast.op = "batch"
    /\ slast.i >= 2
    /\ slast.before = 6
    /\ slast.short
    /\ slast.paper.summary # <<>>
    /\ slast.calls = 0
    /\ results[slast.id] = rule_based_summary(slast.paper)

\* C16: the consecutive-failure counter equals the number of failed stage
\* calls made since the last stage call that succeeded: each failed call adds
\* exactly 1, each successful call sets it to 0 (a Stage 2 success followed by
\* a Stage 3 failure leaves 1)
C16_CounterIsFailuresSinceSuccess ==
    /\ llm_failures = sinceOk
    /\ (slast.s2 = "ok" /\ slast.s3 = "fail") => llm_failures = 1
    /\ (slast.s2 = "fail") => llm_failures = slast.before + 1
    /\ (slast.s3 = "ok") => llm_failures = 0
\* a counter of 2 or more cleared by Stage 2, then Stage 3 failed
C16_Witness ==
    /\ slast.before >= 2
    /\ slast.s2 = "ok"
    /\ slast.s3 = "fail"
    /\ llm_failures = 1

\* the key a paper is stored under: its arxiv_id, or unknown_<position>
\* when it has none
C17_Key(k) ==
    IF bpapers[k].arxiv_id = "missing" THEN UnknownIds[k] ELSE bpapers[k].arxiv_id
\* the papers of the batch have distinct identities
C17_Distinct ==
    \A j, k \in 1..Len(bpapers) : j # k => C17_Key(j) # C17_Key(k)
\* the statement of C17 as written: as many entries as papers with a
\* non-empty abstract
C17_Original ==
    (BatchDone /\ C17_Distinct) =>
        /\ DOMAIN results = {C17_Key(k) : k \in {j \in 1..Len(bpapers) :
                                                  bpapers[j].summary # <<>>}}
        /\ Cardinality(DOMAIN results)
             = Cardinality({j \in 1..Len(bpapers) : bpapers[j].summary # <<>>})
\* C17: for a batch of papers with distinct identities, summarize_batch
\* returns a mapping with one entry per input paper, keyed by the identity of
\* the paper; a paper with an empty abstract has the "no abstract" marker as
\* its entry, so the number of entries is the number of input papers
C17_OneEntryPerPaper ==
    (BatchDone /\ C17_Distinct) =>
        /\ DOMAIN results = {C17_Key(k) : k \in 1..Len(bpapers)}
        /\ Cardinality(DOMAIN results) = Len(bpapers)
        /\ \A k \in 1..Len(bpapers) :
              /\ results[C17_Key(k)] # <<>>
              /\ bpapers[k].summary = <<>> => results[C17_Key(k)] = NoAbstract
\* a finished batch of two distinct papers, one without abstract and one
\* without arxiv_id
C17_Witness ==
    /\ BatchDone
    /\ C17_Distinct
    /\ Len(bpapers) = 2
    /\ bpapers[1].summary = <<>>
    /\ bpapers[2].arxiv_id = "missing"
    /\ DOMAIN results = {"a", "unknown_2"}
    /\ results["a"] = NoAbstract

\* the statement of C18 as written: a delay is taken only after a paper that
\* made a remote call, never right before a paper served without a remote
\* call, and never after the last paper
C18_OriginalStep ==
    BatchPaperStep =>
        /\ slast'.slept => slast'.calls > 0
        /\ (slast.op = "batch" /\ slast.slept) => slast'.calls > 0
        /\ slast'.i = Len(bpapers) => ~slast'.slept
C18_Original == [][C18_OriginalStep]_vars
\* C18: in summarize_batch a positive delay is taken after a paper exactly
\* when the paper is not the last one and the consecutive-failure counter is
\* below 6 both before and after it, whether or not the paper made a remote
\* call (an empty-abstract paper included); no delay is taken before or after
\* a paper served by the counter >= 6 fallback branch, and none after the last
\* paper of the batch
C18_Step ==
    BatchPaperStep =>
        /\ slast'.slept <=> /\ bdelay > 0
                            /\ slast'.i < Len(bpapers)
                            /\ llm_failures < 6
                            /\ llm_failures' < 6
        /\ slast'.short => ~slast'.slept
        /\ (slast.op = "batch" /\ slast.slept) => ~slast'.short
        /\ slast'.i = Len(bpapers) => ~slast'.slept
C18_DelayWhileBelowSix == [][C18_Step]_vars
\* a delay taken after an empty-abstract paper, which made no remote call
C18_Witness ==
    /\ slast.op = "batch"
    /\ slast.slept
    /\ slast.calls = 0
    /\ slast.paper.summary = <<>>
    /\ slast.i < Len(bpapers)

\* the entry of paper k has the rule-based fallback form: one bullet, built
\* from the key sentences of the abstract of paper k, cut to the budget
C19_FallbackForm(k) ==
    LET e == results[PaperId(bpapers[k], k)]
    IN /\ e # <<>>
       /\ Head(e) = "*"
       /\ Len(e) >= 2
       /\ Tail(e) = truncate(extract_key_sentences(bpapers[k].summary, 3))
       /\ ~Contains(e, EF) /\ ~Contains(e, CF)
\* the papers handled so far have distinct identities
C19_Distinct ==
    \A j, k \in 1..bi : j # k => PaperId(bpapers[j], j) # PaperId(bpapers[k], k)
\* the statement of C19 as written, for any list of papers
C19_Original ==
    (spc = "batch" /\ ballFail) =>
        \A k \in 1..bi :
            bpapers[k].summary # <<>> =>
                /\ PaperId(bpapers[k], k) \in DOMAIN results
                /\ C19_FallbackForm(k)
\* C19: when every remote call fails, summarize_batch over a list of papers
\* with distinct identities still ends with a non-empty entry for every paper
\* that has a non-empty abstract, and each of these entries has the rule-based
\* fallback form; of papers that share an identity, only the last one in the
\* list has its summary in the mapping
C19_AllFailStillSummarized ==
    (spc = "batch" /\ ballFail) =>
        /\ C19_Distinct =>
              \A k \in 1..bi :
                 bpapers[k].summary # <<>> =>
                    /\ PaperId(bpapers[k], k) \in DOMAIN results
                    /\ C19_FallbackForm(k)
        /\ \A k \in 1..bi :
              (\A j \in (k + 1)..bi :
                    PaperId(bpapers[j], j) # PaperId(bpapers[k], k)) =>
                 /\ PaperId(bpapers[k], k) \in DOMAIN results
                 /\ results[PaperId(bpapers[k], k)] # <<>>
                 /\ bpapers[k].summary # <<>> => C19_FallbackForm(k)
\* a finished batch of two papers in which every call failed, the long
\* abstract among them
C19_Witness ==
    /\ BatchDone
    /\ ballFail
    /\ Len(bpapers) = 2
    /\ slast.s2 = "fail"
    /\ slast.before = 1
    /\ C19_Distinct
    /\ \E k \in 1..2 : /\ bpapers[k].arxiv_id = "b"
                       /\ results["b"] = <<"*", "[:247]", "S1", "Seg'", "S4", "...">>

\* a chat that raises an error of kind k
C20_Raise(k) == [ok |-> FALSE, text |-> <<>>, kind |-> k]
\* a chat that returns a text without failure phrase
C20_Return == [ok |-> TRUE, text |-> <<"_", "w", "_">>, kind |-> "None"]
\* C20: whatever the kind of the error a remote call raises (authentication,
\* bad request, rate limit, server, connection, unknown, circuit open),
\* summarize returns a summary: the stage counts as failed, the counter grows
\* by 1 (from 0 after a Stage 2 success) and the summary is the rule-based
\* fallback; two runs from the same counter on the same paper that differ
\* only in the kind of the error return the same summary and leave the same
\* counter
C20_ErrorKindsAlike ==
    \A paper \in {q \in Papers : q.summary # <<>>} :
        \* what summarize returns and leaves, over all kinds of error raised
        \* by the Stage 2 call, and by the Stage 3 call after a Stage 2 success
        \E r2 \in {summarize(llm_failures, paper, C20_Raise("LLMAuthError"), NoChat)} :
        \E r3 \in {summarize(llm_failures, paper, C20_Return, C20_Raise("LLMAuthError"))} :
           /\ \A k \in ChatErrorKinds :
                 /\ summarize(llm_failures, paper, C20_Raise(k), NoChat) = r2
                 /\ summarize(llm_failures, paper, C20_Return, C20_Raise(k)) = r3
           /\ r2.summary = rule_based_summary(paper)
           /\ r3.summary = rule_based_summary(paper)
           /\ llm_failures < 6 =>
                 /\ r2.s2 = "fail" /\ r2.failures = llm_failures + 1
                 /\ r3.s3 = "fail" /\ r3.failures = 1
\* a Stage 2 call has just raised on top of earlier failures and the paper
\* got the fallback
C20_Witness ==
    /\ slast.op \in {"summarize", "batch"}
    /\ slast.s2 = "fail"
    /\ slast.before >= 1
    /\ llm_failures = slast.before + 1
    /\ slast.summary = rule_based_summary(slast.paper)

(* ---- ScoringPipeline: steps, as seen from a pair of states ------------- *)
\* a call of score_paper
ScoreStep ==
    /\ qlast'.op = "score_paper"
    /\ ~qlast'.scaled
    /\ qpipeline' = qpipeline
    /\ qnow' = qnow
\* a call of rank_papers
RankStep ==
    /\ qlast'.op = "rank_papers"
    /\ qpipeline' = qpipeline
    /\ qnow' = qnow
\* the weights of the pipeline
NonNegativeWeights ==
    \A j \in 1..Len(qpipeline.scorers) : qpipeline.scorers[j].weight >= 0
\* a paper dict without its quality_score
Unscored(paper) == [paper EXCEPT !.quality_score = Absent]
\* the identities of the papers of a list, in order
Ids(papers) == [k \in 1..Len(papers) |-> papers[k].arxiv_id]

C22_Step ==
    (RankStep /\ ~qlast'.raised) =>
        /\ Len(qpapers') = Len(qpapers)
        /\ \E f \in [1..Len(qpapers) -> 1..Len(qpapers)] :
              /\ \A i, j \in 1..Len(qpapers) : i # j => f[i] # f[j]
              /\ \A k \in 1..Len(qpapers) :
                    /\ Unscored(qpapers'[k]) = Unscored(qpapers[f[k]])
                    /\ qpapers'[k] = score_paper(qpipeline, qpapers[f[k]], qnow).paper
        /\ \A k \in 1..Len(qpapers') : qpapers'[k].quality_score.tag = "int"
        /\ \A i, j \in 1..Len(qpapers') :
              qpapers'[i].quality_score.n > qpapers'[j].quality_score.n => i < j
C22_RankSortsDescending == [][C22_Step]_vars
\* two papers ranked, the better one first
C22_Witness ==
    /\ qlast.op = "rank_papers"
    /\ ~qlast.raised
    /\ Len(qpapers) = 2
    /\ qpapers[1].quality_score.n > qpapers[2].quality_score.n
    /\ Ids(qpapers) = <<"C", "B">>

\* C23: with the default weights 30/20/20/15/15, rank_papers([A, B, C]) of
\* the three papers of the scenario returns [A, C, B], with the quality_score
\* of A above 90 and that of B below 10
C23_Step ==
    ( /\ RankStep
      /\ qpipeline.scorers = DefaultScorers(1)
      /\ qnow = Today
      /\ Len(qpapers) = 3
      /\ Unscored(qpapers[1]) = PaperA
      /\ Unscored(qpapers[2]) = PaperB
      /\ Unscored(qpapers[3]) = PaperC ) =>
        /\ ~qlast'.raised
        /\ Ids(qpapers') = <<"A", "C", "B">>
        /\ qpapers'[1].quality_score.n > 900
        /\ qpapers'[3].quality_score.n < 100
C23_ScenarioRanking == [][C23_Step]_vars
\* the scenario has been ranked
C23_Witness ==
    /\ qlast.op = "rank_papers"
    /\ qpipeline.scorers = DefaultScorers(1)
    /\ qnow = Today
    /\ Ids(qpapers) = <<"A", "C", "B">>
    /\ qpapers[1].quality_score = IntVal(1000)
    /\ qpapers[2].quality_score.n \in {609, 610}
    /\ qpapers[3].quality_score = IntVal(0)

\* C24: score_paper puts in quality_score a value that does not depend on
\* the quality_score the paper had, changes no other field and no other
\* paper, and scoring the same paper again with the same pipeline on the same
\* day gives the same score
C24_Step ==
    (ScoreStep /\ ~qlast'.raised) =>
        LET k == qlast'.k IN
        /\ qpapers'[k].quality_score = IntVal(qlast'.score)
        /\ qlast'.score = score_paper(qpipeline, Unscored(qpapers[k]), qnow).score
        /\ Unscored(qpapers'[k]) = Unscored(qpapers[k])
        /\ \A j \in 1..Len(qpapers) : j # k => qpapers'[j] = qpapers[j]
        /\ Len(qpapers') = Len(qpapers)
        /\ (qlast.op = "score_paper" /\ ~qlast.scaled /\ ~qlast.raised /\ qlast.k = k)
              => qlast'.score = qlast.score /\ qpapers' = qpapers
C24_ScoreOverwrites == [][C24_Step]_vars
\* a paper that had a score from the day before is scored again, to
\* something else
C24_Witness ==
    /\ qlast.op = "score_paper"
    /\ ~qlast.raised
    /\ qnow = Today + 1
    /\ Len(qpapers) = 3
    /\ Ids(qpapers) = <<"A", "C", "B">>
    /\ qlast.k = 1
    /\ qpapers[1].quality_score = IntVal(970)

\* C25: a paper scored by a pipeline, and then by the pipeline with every
\* weight multiplied by the same positive number, gets the same quality_score
C25_Step ==
    ( /\ ScoreStep
      /\ ~qlast'.raised
      /\ qlast.op = "score_paper"
      /\ qlast.scaled
      /\ ~qlast.raised
      /\ qlast.k = qlast'.k ) =>
        qlast'.score = qlast.score
C25_ScalingKeepsScore == [][C25_Step]_vars

\* the citation counts of CitCounts in pairs, with the same influential
\* citations on both sides
C26_Table ==
    \A a, b \in CitCounts : \A i \in InfVals :
        a <= b =>
           CitationScorer_score(
               [PaperA EXCEPT !.s2_citation_count = IntVal(a),
                              !.s2_influential_citation_count = i]).score
           <= CitationScorer_score(
               [PaperA EXCEPT !.s2_citation_count = IntVal(b),
                              !.s2_influential_citation_count = i]).score
\* C26: of two papers that differ only in s2_citation_count, the one with
\* the larger count does not get the lower score from CitationScorer.score:
\* what the citation scorer returned for the paper just scored is compared
\* with its score for the same paper under every other count
C26_CitationMonotone ==
    /\ C26_Table
    /\ (qlast.op = "score_paper" /\ ~qlast.raised) =>
          \A j \in 1..Len(qpipeline.scorers) :
             qpipeline.scorers[j].name = "citation" =>
                LET paper == qpapers[qlast.k]
                    mine == CountOf(paper.s2_citation_count)
                IN \A c \in CitCounts :
                      LET other == CitationScorer_score(
                              [paper EXCEPT !.s2_citation_count = IntVal(c)]).score
                      IN /\ c >= mine => other >= qlast.signals[j]
                         /\ c <= mine => other <= qlast.signals[j]
\* the paper with 10 citations has been scored: 0.4 from the citations
C26_Witness ==
    /\ qlast.op = "score_paper"
    /\ ~qlast.raised
    /\ qpipeline.scorers # <<>>
    /\ qpipeline.scorers[1].name = "citation"
    /\ qpapers[qlast.k].s2_citation_count = IntVal(10)
    /\ qlast.signals[1] = 40

\* the ages of Ages in pairs, for every decay_days of DecayDays
C27_Table ==
    \A d \in DecayDays : \A a, b \in Ages :
        a < b => freshness_of_age(b, d) <= freshness_of_age(a, d)
\* C27: for every decay_days, also below 14, and any two ages a < b in
\* days, FreshnessScorer.score at age b is not higher than at age a: what
\* the freshness scorer returned for the paper just scored is compared with
\* its score at every other age
C27_FreshnessAntitone ==
    /\ C27_Table
    /\ (qlast.op = "score_paper" /\ ~qlast.raised
           /\ qpapers[qlast.k].published.tag = "date") =>
          \A j \in 1..Len(qpipeline.scorers) :
             qpipeline.scorers[j].name = "freshness" =>
                LET age == qnow - qpapers[qlast.k].published.day
                    d == qpipeline.scorers[j].decay_days
                IN \A b \in Ages :
                      /\ b > age => freshness_of_age(b, d) <= qlast.signals[j]
                      /\ b < age => freshness_of_age(b, d) >= qlast.signals[j]
\* a paper of 9 days has been scored with decay_days = 10: the 0.4 of the
\* first 14 days, although it is within one day of decay_days
C27_Witness ==
    /\ qlast.op = "score_paper"
    /\ ~qlast.raised
    /\ qpipeline.scorers # <<>>
    /\ qpipeline.scorers[1].name = "freshness"
    /\ qpipeline.scorers[1].decay_days = 10
    /\ qnow - qpapers[qlast.k].published.day = 9
    /\ qlast.signals[1] = 40

\* C28: score_paper and rank_papers never raise, whatever is missing from
\* the record or malformed in it
C28_ScoringNeverFails ==
    qlast.op \in {"score_paper", "rank_papers"} => ~qlast.raised

(* ---- extract_key_sentences: steps, as seen from a pair of states -------- *)
\* C29: extract_key_sentences(abstract, max_sentences) returns abstract as
\* it is, abbreviations included, whenever abstract has at most
\* max_sentences sentences
C29_ShortAbstractUnchanged ==
    (xpc = "done" /\ Len(xabstract) <= xmax_sentences) => xresult = xabstract
\* an abstract of three sentences with an abbreviation in it came back
\* from extract_key_sentences(abstract, 3)
C29_Witness ==
    /\ xpc = "done"
    /\ xabstract = <<"S1", "Seg", "S2">>
    /\ xmax_sentences = 3
    /\ xresult = <<"S1", "Seg", "S2">>

(* ---- ArxivDatabase: steps, as seen from a pair of states ---------------- *)
\* a call of insert_paper with a paper whose arxiv_id is stored
ReinsertStep ==
    /\ dlast'.op = "insert_paper"
    /\ get_paper_by_arxiv_id(db, dlast'.arxiv_id) # {}

\* C30: insert_paper of a paper whose arxiv_id is stored returns False, and
\* the row of the paper, the tables of authors and categories with their
\* links, and the number of papers are what they were
C30_Step ==
    ReinsertStep =>
        /\ ~dlast'.returned
        /\ get_paper_by_arxiv_id(db', dlast'.arxiv_id)
              = get_paper_by_arxiv_id(db, dlast'.arxiv_id)
        /\ Len(db'.papers) = Len(db.papers)
        /\ db' = db
C30_ReinsertIsNoOp == [][C30_Step]_vars
\* a paper was stored, and a call with the same arxiv_id has returned False
C30_Witness ==
    /\ dlast.op = "insert_paper"
    /\ ~dlast.returned
    /\ Len(db.papers) = 1
    /\ db.papers[1].arxiv_id = dlast.arxiv_id
    /\ db.papers[1].title = "T"
    /\ Len(db.authors) = 2

\* a call of insert_paper with a paper whose arxiv_id is not stored
NewInsertStep ==
    /\ dlast'.op = "insert_paper"
    /\ get_paper_by_arxiv_id(db, dlast'.arxiv_id) = {}

\* C31: insert_paper of a paper whose arxiv_id is not stored returns True,
\* whatever its lists of authors and categories, and the paper can then be
\* read back by its arxiv_id
C31_Step ==
    NewInsertStep =>
        /\ dlast'.returned
        /\ get_paper_by_arxiv_id(db', dlast'.arxiv_id) # {}
        /\ Len(db'.papers) = Len(db.papers) + 1
C31_NewPaperIsStored == [][C31_Step]_vars

(* ---- C36 --------------------------------------------------------------- *)
\* the score of sentence k of an abstract: its vocabulary hits, +2 for the
\* first sentence and +1 for the last
C36_Score(abstract, k) ==
    Hits(abstract[k])
    + (IF k = 1 THEN 2 ELSE IF k = Len(abstract) THEN 1 ELSE 0)
\* C36: for an abstract with more than max_sentences sentences the result
\* has exactly max_sentences sentences, they are sentences of the abstract
\* in their original order, and every sentence chosen scores higher than
\* every sentence left out, or the same and stands before it
C36_LongAbstractSubsequence ==
    (xpc = "done" /\ Len(xabstract) > xmax_sentences) =>
        /\ Len(xresult) = xmax_sentences
        /\ StrLen(xresult) <= StrLen(xabstract)
        /\ \E f \in [1..Len(xresult) -> 1..Len(xabstract)] :
              /\ \A i, j \in 1..Len(xresult) : i < j => f[i] < f[j]
              /\ \A k \in 1..Len(xresult) : xresult[k] = xabstract[f[k]]
              /\ \A k \in 1..Len(xresult) :
                 \A j \in 1..Len(xabstract) :
                    (\A i \in 1..Len(xresult) : f[i] # j) =>
                       \/ C36_Score(xabstract, f[k]) > C36_Score(xabstract, j)
                       \/ /\ C36_Score(xabstract, f[k]) = C36_Score(xabstract, j)
                          /\ f[k] < j

(* ---- C33 --------------------------------------------------------------- *)
\* C33: every invocation of fn() by call_with_retry, first attempt or
\* retry, starts with the circuit CLOSED or HALF_OPEN, as an observer of
\* circuit.state would see it at that time
C33_Step == AttemptStep => state(circuit, now).state # "OPEN"
C33_NoInvocationWhileOpen == [][C33_Step]_vars

(* ---- C34 --------------------------------------------------------------- *)
\* the delay the retry contract gives for a failure of this kind at
\* 0-based attempt k, with the delay the provider suggested (0 for none)
C34_Delay(kind, k, suggested) ==
    CASE kind = "LLMRateLimitError"  ->
            IF suggested > 0 THEN suggested ELSE 5 * (k + 1)
      [] kind = "LLMServerError"     -> 2 * (k + 1)
      [] kind = "LLMConnectionError" -> 5 * (k + 1)
      [] OTHER                       -> 3 * (k + 1)
\* C34: the sleep between failed attempt k and attempt k+1 lasts
\* 5*(k+1) seconds after a rate-limit failure, or what the provider
\* suggested when it suggested a delay, 2*(k+1) after a server-side failure,
\* 5*(k+1) after a connection failure and 3*(k+1) after an unknown one
C34_Step ==
    (AttemptStep /\ ev'.lastSlept) =>
        now' - now = C34_Delay(ev'.lastKind, attempt, ev'.suggested)
C34_RetryDelays == [][C34_Step]_vars
\* the same without the delay of the provider
C34_LinearStep ==
    (AttemptStep /\ ev'.lastSlept) =>
        now' - now = C34_Delay(ev'.lastKind, attempt, 0)
C34_LinearDelays == [][C34_LinearStep]_vars

(* ---- C37 --------------------------------------------------------------- *)
\* C37: in every reachable state the circuit is CLOSED only with fewer than
\* failure_threshold failures counted and OPEN or HALF_OPEN only with
\* failure_threshold or more; the counter is never negative
C37_StateMatchesCounter ==
    /\ circuit.failures >= 0
    /\ circuit.state = "CLOSED" => circuit.failures < failure_threshold
    /\ circuit.state \in {"OPEN", "HALF_OPEN"} =>
          circuit.failures >= failure_threshold
    /\ state(circuit, now).state = "CLOSED" <=> circuit.state = "CLOSED"
\* the circuit is HALF_OPEN after a failed probe had opened it again: five
\* failures counted
C37_Witness ==
    /\ circuit.state = "HALF_OPEN"
    /\ circuit.failures = failure_threshold + 1
    /\ pc = "idle"

(* ---- C35 --------------------------------------------------------------- *)
\* C35: when the chat of Stage 2 fails for a paper, no chat of Stage 3 is
\* made for it: the paper costs one call of self.llm.chat, the counter goes
\* up by exactly 1, and the summary is the rule-based one
C35_Step ==
    (PaperStep /\ slast'.s2 = "fail") =>
        /\ slast'.calls = 1
        /\ slast'.s3 = "none"
        /\ llm_failures' = llm_failures + 1
        /\ slast'.summary = rule_based_summary(slast'.paper)
C35_Stage2FailureStopsThePaper == [][C35_Step]_vars
\* in a batch, Stage 2 has failed for the second paper, with two failures
\* counted before
C35_Witness ==
    /\ slast.op = "batch"
    /\ slast.i = 2
    /\ slast.s2 = "fail"
    /\ slast.s3 = "none"
    /\ slast.calls = 1
    /\ slast.before = 2
    /\ llm_failures = 3

\* C38: once the counter of the summarizer has reached its limit it stays
\* there: the counter does not change any more, and a summarize or a
\* summarize_batch that begins with the counter at its limit (a later batch,
\* or one after reset_circuit, included) makes no call of the client and
\* returns rule-based summaries only; within one batch no paper that begins
\* with the counter at its limit makes a call.
C38_Step ==
    /\ llm_failures >= llm_failure_limit => llm_failures' = llm_failures
    /\ (glast'.op \in {"summarize", "batch"}
          /\ glast'.before >= llm_failure_limit)
         => (glast'.calls = 0 /\ glast'.rule)
    /\ glast'.late = 0
C38_LimitIsAbsorbing == [][C38_Step]_vars
\* a batch of papers with abstracts that began right after reset_circuit
\* with the counter at its limit
C38_Witness ==
    /\ glast.op = "batch"
    /\ glast.before = llm_failure_limit
    /\ glast.afterReset
    /\ glast.abstracts >= 2
    /\ glast.calls = 0
    /\ circuit = reset_circuit(circuit)

\* C39: a summarize_batch that begins with a fresh summarizer and a reset
\* circuit, every attempt of which fails and during which no cooldown
\* elapses, makes exactly min(6, papers with an abstract) calls of the client,
\* at most failure_threshold of them reach the transport, and the counter of
\* the summarizer counts every one of them, the rejected ones included.
C39_Hypothesis ==
    /\ glast.op = "batch"
    /\ glast.fresh
    /\ glast.allfail
    /\ ~glast.cooled
C39_FailingBatch ==
    C39_Hypothesis =>
       /\ glast.calls = (IF glast.abstracts < llm_failure_limit
                            THEN glast.abstracts ELSE llm_failure_limit)
       /\ glast.reached <= failure_threshold
       /\ llm_failures = glast.calls
\* a failing batch of more than six papers with abstracts: six calls, four of
\* which reached the transport and two of which the open circuit rejected
C39_Witness ==
    /\ C39_Hypothesis
    /\ glast.abstracts > llm_failure_limit
    /\ glast.calls = llm_failure_limit
    /\ glast.reached = failure_threshold
    /\ llm_failures = llm_failure_limit
    /\ circuit.state = "OPEN"

\* C32: an enrichment pass whose lookup gave no record for a paper leaves
\* the citation count, the venue, the published flag, the journal and the DOI
\* of that paper as they were, whenever they held a value other than the
\* default.
Kept(old, new, default) == (old # Absent /\ old # default) => new = old
C32_Kept(old, new) ==
    /\ Kept(old.s2_citation_count, new.s2_citation_count, IntVal(0))
    /\ Kept(old.s2_venue, new.s2_venue, StrVal(""))
    /\ Kept(old.cr_published, new.cr_published, BoolVal(FALSE))
    /\ Kept(old.cr_journal, new.cr_journal, StrVal(""))
    /\ Kept(old.cr_doi, new.cr_doi, StrVal(""))
C32_Step ==
    elast'.op \in {"s2", "cr"} =>
       \A k \in 1..Len(epapers) :
          ~elast'.found[k] => C32_Kept(epapers[k], epapers'[k])
C32_NoResetWithoutData == [][C32_Step]_vars
\* the same for the passes of Semantic Scholar alone
C32_S2Step ==
    elast'.op = "s2" =>
       \A k \in 1..Len(epapers) :
          ~elast'.found[k] => C32_Kept(epapers[k], epapers'[k])
C32_S2KeepsValues == [][C32_S2Step]_vars

\* C40: when run_pipeline returns, every paper of the returned top list has
\* the quality_score that scoring gives to the paper as it is after both
\* enrichment passes, the list is in non-increasing order of that score and
\* has at most top_n papers; the circuit is CLOSED with counter 0 when
\* summarize_batch is entered, whatever the filter step did to it; and the
\* database is as it was when the run began until the summaries are made.
C40_BeforePersist ==
    {"filter", "s2", "rank", "crossref", "rerank", "reset", "summarize",
     "persist", "raised"}
C40_Top == Materialize(pdicts, top_papers)
C40_PipelineOrder ==
    /\ ppc = "returned" =>
          /\ \A k \in 1..Len(top_papers) :
                LET r == score_paper(PipeScorer, C40_Top[k], qnow)
                IN ~r.raised /\ r.paper = C40_Top[k]
          /\ \A k \in 1..(Len(top_papers) - 1) :
                QualityKey(C40_Top[k]) >= QualityKey(C40_Top[k + 1])
          /\ Len(top_papers) <= psettings.top_n
    /\ ppc = "summarize" =>
          (circuit.state = "CLOSED" /\ circuit.failures = 0)
    /\ (ppc \in {"persist", "returned"} /\ top_papers # <<>>) =>
          (pstart.state = "CLOSED" /\ pstart.failures = 0)
    /\ ppc \in C40_BeforePersist => db = pdb0
    /\ (ppc = "persist" /\ top_papers # <<>>) => summaries # {}
\* a run that returned two papers, one of them published according to
\* Crossref, after the filter call had left the circuit OPEN, and stored
\* new papers
C40_Witness ==
    /\ ppc = "returned"
    /\ Len(top_papers) = 2
    /\ pfilter.state = "OPEN"
    /\ \E k \in 1..2 : C40_Top[k].cr_published = BoolVal(TRUE)
    /\ QualityKey(C40_Top[1]) > QualityKey(C40_Top[2])
    /\ summaries # {}
    /\ db # pdb0

=============================================================================
